---- MODULE Spec2Model ----
(***************************************************************************)
(* Model of the Nexus Go SDK core: the client operation handle             *)
(* (src/nexus/handle.go) and the server dispatcher (src/nexus/server.go).  *)
(*                                                                         *)
(* Strings are sequences of one-character strings, so that escaping,       *)
(* unescaping and path manipulation are computed character by character.   *)
(* Durations are integers counted in microseconds.                         *)
(***************************************************************************)
EXTENDS Integers, Sequences, FiniteSets, TLC

\* ------------------------------------------------------------------------
\* Bounds of the model
\* ------------------------------------------------------------------------

\* Longest operation name / operation id enumerated for the URL round trip.
MaxLen == 2

\* ------------------------------------------------------------------------
\* Generic helpers
\* ------------------------------------------------------------------------

Min(a, b) == IF a <= b THEN a ELSE b

Str0 == << >>

\* All sequences over S of length 1..n.
RECURSIVE SeqsUpTo(_, _)
SeqsUpTo(S, n) ==
  IF n = 0 THEN {}
  ELSE LET shorter == SeqsUpTo(S, n - 1)
       IN  {<<c>> : c \in S} \cup shorter \cup
           {Append(s, c) : s \in {t \in shorter : Len(t) = n - 1}, c \in S}

HasPrefix(s, p) == Len(s) >= Len(p) /\ SubSeq(s, 1, Len(p)) = p

HasSuffix(s, p) ==
  Len(s) >= Len(p) /\ SubSeq(s, Len(s) - Len(p) + 1, Len(s)) = p

\* strings.LastIndex(s, "/") + 1: position of the last slash, 0 when absent.
LastSlash(s) ==
  IF \E i \in 1..Len(s) : s[i] = "/"
  THEN CHOOSE i \in 1..Len(s) :
         s[i] = "/" /\ \A j \in (i + 1)..Len(s) : s[j] # "/"
  ELSE 0

\* ------------------------------------------------------------------------
\* net/url escaping, as used by url.PathEscape, url.PathUnescape and
\* URL.setPath / URL.EscapedPath
\* ------------------------------------------------------------------------

\* Characters percent-encoding can produce or consume in this model.
EscapableChars == {"/", "?", ";", ",", "%", " "}

\* The two hex digits of the percent-encoding of a character.
PctCode(c) ==
  CASE c = "/" -> <<"2", "F">>
    [] c = "?" -> <<"3", "F">>
    [] c = ";" -> <<"3", "B">>
    [] c = "," -> <<"2", "C">>
    [] c = "%" -> <<"2", "5">>
    [] c = " " -> <<"2", "0">>

HexDigits == {"0", "1", "2", "3", "4", "5", "6", "7", "8", "9",
              "A", "B", "C", "D", "E", "F"}

\* url.shouldEscape(c, encodePathSegment)
shouldEscapeSegment(c) == c \in {"/", ";", ",", "?", "%", " "}

\* url.shouldEscape(c, encodePath)
shouldEscapePath(c) == c \in {"?", "%", " "}

RECURSIVE escapeSegment(_)
escapeSegment(s) ==
  IF s = Str0 THEN Str0
  ELSE (IF shouldEscapeSegment(Head(s))
        THEN <<"%">> \o PctCode(Head(s)) ELSE <<Head(s)>>)
       \o escapeSegment(Tail(s))

RECURSIVE escapePath(_)
escapePath(s) ==
  IF s = Str0 THEN Str0
  ELSE (IF shouldEscapePath(Head(s))
        THEN <<"%">> \o PctCode(Head(s)) ELSE <<Head(s)>>)
       \o escapePath(Tail(s))

\* url.PathEscape
PathEscape(s) == escapeSegment(s)

\* The character a valid percent-encoding <<h1, h2>> stands for.
PctDecode(code) == CHOOSE c \in EscapableChars : PctCode(c) = code

\* A '%' at position i of s is followed by two hex digits that encode a
\* character.
validPct(s, i) ==
  /\ i + 2 <= Len(s)
  /\ s[i + 1] \in HexDigits
  /\ s[i + 2] \in HexDigits
  /\ \E c \in EscapableChars : PctCode(c) = <<s[i + 1], s[i + 2]>>

\* The loop of url.unescape from position i on, acc being the output so far.
RECURSIVE unescapeFrom(_, _, _)
unescapeFrom(s, i, acc) ==
  IF i > Len(s) THEN [err |-> FALSE, s |-> acc]
  ELSE IF s[i] # "%" THEN unescapeFrom(s, i + 1, Append(acc, s[i]))
  ELSE IF validPct(s, i)
  THEN unescapeFrom(s, i + 3, Append(acc, PctDecode(<<s[i + 1], s[i + 2]>>)))
  ELSE [err |-> TRUE, s |-> Str0]

\* url.unescape: [err, s].  A '%' not followed by two hex digits is an
\* EscapeError.
unescape(s) == unescapeFrom(s, 1, Str0)

\* url.PathUnescape
PathUnescape(s) == unescape(s)

\* url.validEncoded(s, encodePath)
validEncoded(s) ==
  \A i \in 1..Len(s) : s[i] = "%" \/ ~shouldEscapePath(s[i])

\* ------------------------------------------------------------------------
\* package path: Clean, Join, Split, Dir, Base
\* ------------------------------------------------------------------------

\* The elements of p between slashes (empty elements included).
RECURSIVE SplitSlash(_)
SplitSlash(p) ==
  IF \A i \in 1..Len(p) : p[i] # "/" THEN <<p>>
  ELSE LET i == CHOOSE k \in 1..Len(p) :
                  p[k] = "/" /\ \A j \in 1..(k - 1) : p[j] # "/"
       IN  <<SubSeq(p, 1, i - 1)>> \o SplitSlash(SubSeq(p, i + 1, Len(p)))

RECURSIVE JoinSlash(_)
JoinSlash(elems) ==
  IF elems = << >> THEN Str0
  ELSE IF Len(elems) = 1 THEN elems[1]
  ELSE elems[1] \o <<"/">> \o JoinSlash(Tail(elems))

\* The element stack of path.Clean: "." and empty elements are dropped,
\* ".." removes the element before it (or is dropped at the root, or kept in
\* a relative path).
RECURSIVE cleanElems(_, _, _)
cleanElems(elems, stack, rooted) ==
  IF elems = << >> THEN stack
  ELSE LET e == Head(elems)
           rest == Tail(elems)
       IN  IF e = Str0 \/ e = <<".">> THEN cleanElems(rest, stack, rooted)
           ELSE IF e = <<".", ".">>
           THEN IF stack # << >> /\ stack[Len(stack)] # <<".", ".">>
                THEN cleanElems(rest, SubSeq(stack, 1, Len(stack) - 1), rooted)
                ELSE IF rooted THEN cleanElems(rest, stack, rooted)
                ELSE cleanElems(rest, Append(stack, e), rooted)
           ELSE cleanElems(rest, Append(stack, e), rooted)

\* path.Clean
pathClean(p) ==
  IF p = Str0 THEN <<".">>
  ELSE LET rooted == p[1] = "/"
           body == JoinSlash(cleanElems(SplitSlash(p), << >>, rooted))
       IN  IF rooted THEN <<"/">> \o body
           ELSE IF body = Str0 THEN <<".">> ELSE body

\* path.Join: empty elements are ignored, the result is cleaned.
pathJoin(elems) ==
  LET nonEmpty == SelectSeq(elems, LAMBDA e : e # Str0)
  IN  IF nonEmpty = << >> THEN Str0 ELSE pathClean(JoinSlash(nonEmpty))

\* path.Split: <<dir, file>>, split after the final slash.
pathSplit(p) ==
  LET i == LastSlash(p)
  IN  <<SubSeq(p, 1, i), SubSeq(p, i + 1, Len(p))>>

\* path.Dir
pathDir(p) == pathClean(pathSplit(p)[1])

RECURSIVE stripTrailingSlashes(_)
stripTrailingSlashes(p) ==
  IF p # Str0 /\ p[Len(p)] = "/"
  THEN stripTrailingSlashes(SubSeq(p, 1, Len(p) - 1))
  ELSE p

\* path.Base
pathBase(p) ==
  IF p = Str0 THEN <<".">>
  ELSE LET q == stripTrailingSlashes(p)
           r == SubSeq(q, LastSlash(q) + 1, Len(q))
       IN  IF r = Str0 THEN <<"/">> ELSE r

\* ------------------------------------------------------------------------
\* net/url.URL: the Path / RawPath pair
\* ------------------------------------------------------------------------

\* URL.setPath: RawPath is kept only when p differs from the default
\* encoding of the decoded path.
setPath(p) ==
  LET u == unescape(p)
  IN  [err |-> u.err,
       Path |-> u.s,
       RawPath |-> IF u.err \/ escapePath(u.s) = p THEN Str0 ELSE p]

\* URL.EscapedPath
EscapedPath(u) ==
  IF u.RawPath # Str0 /\ validEncoded(u.RawPath)
     /\ ~unescape(u.RawPath).err /\ unescape(u.RawPath).s = u.Path
  THEN u.RawPath
  ELSE escapePath(u.Path)

\* URL.JoinPath
JoinPath(u, elem) ==
  LET first == EscapedPath(u)
      all == IF HasPrefix(first, <<"/">>)
             THEN <<first>> \o elem ELSE <<<<"/">> \o first>> \o elem
      joined == IF HasPrefix(first, <<"/">>)
                THEN pathJoin(all) ELSE Tail(pathJoin(all))
      p == IF HasSuffix(all[Len(all)], <<"/">>) /\ ~HasSuffix(joined, <<"/">>)
           THEN joined \o <<"/">> ELSE joined
  IN  setPath(p)

\* ------------------------------------------------------------------------
\* URL layout: the client builds <base>/<service>/<operation>/<id>[/suffix],
\* the server routes on the encoded path and decodes the segments.
\* ------------------------------------------------------------------------

\* Characters operation names and ids are drawn from: a plain character, a
\* path separator (escaped by both encodings' segment mode only) and a
\* character that every encoding mode escapes.
NameChars == {"a", "/", "?"}

Names == SeqsUpTo(NameChars, MaxLen)

Calls == {"GetInfo", "GetResult", "Cancel"}

\* h.client.options.Service and the path of h.client.serviceBaseURL.
Service == <<"s">>
ServiceBasePath == <<"/">>

\* The path suffix each client call appends after the operation id.
CallSuffix(call) ==
  CASE call = "GetInfo" -> << >>
    [] call = "GetResult" -> << <<"r", "e", "s", "u", "l", "t">> >>
    [] call = "Cancel" -> << <<"c", "a", "n", "c", "e", "l">> >>

CallMethod(call) == IF call = "Cancel" THEN "POST" ELSE "GET"

\* The request URL of GetInfo / GetResult / Cancel:
\* serviceBaseURL.JoinPath(PathEscape(service), PathEscape(operation),
\* PathEscape(id)[, suffix]), rendered with URL.String() and parsed again by
\* http.NewRequestWithContext.
ClientURL(call, operation, id) ==
  LET u == JoinPath(setPath(ServiceBasePath),
                    <<PathEscape(Service), PathEscape(operation),
                      PathEscape(id)>> \o CallSuffix(call))
  IN  setPath(EscapedPath(u))

\* The server is mounted below the service segment: http.StripPrefix removes
\* the prefix from Path and from RawPath (an unset RawPath stays unset).
MountPrefix == <<"/">> \o PathEscape(Service)

StripMount(u) ==
  LET trim(p) == IF HasPrefix(p, MountPrefix)
                 THEN SubSeq(p, Len(MountPrefix) + 1, Len(p)) ELSE p
      p == trim(u.Path)
      rp == trim(u.RawPath)
  IN  [found |-> Len(p) < Len(u.Path)
                 /\ (u.RawPath = Str0 \/ Len(rp) < Len(u.RawPath)),
       Path |-> p, RawPath |-> rp]

\* mux.NewRouter().UseEncodedPath() with the four routes of NewHTTPHandler:
\* the encoded path is matched, every {variable} matches one non-empty
\* segment without a slash.
RouteSegments(method, segs) ==
  LET n == Len(segs)
  IN  IF ~(n >= 1 /\ \A i \in 1..n : segs[i] # Str0) THEN "notFound"
      ELSE IF n = 1 /\ method = "POST" THEN "startOperation"
      ELSE IF n = 2 /\ method = "GET" THEN "getOperationInfo"
      ELSE IF n = 3 /\ method = "GET"
              /\ segs[3] = <<"r", "e", "s", "u", "l", "t">>
      THEN "getOperationResult"
      ELSE IF n = 3 /\ method = "POST"
              /\ segs[3] = <<"c", "a", "n", "c", "e", "l">>
      THEN "cancelOperation"
      ELSE "notFound"

\* The router matches the segments of the encoded path.
EncodedSegments(esc) ==
  IF HasPrefix(esc, <<"/">>) THEN SplitSlash(Tail(esc)) ELSE << >>

Route(method, u) == RouteSegments(method, EncodedSegments(EscapedPath(u)))

\* The segment decoding at the head of getOperationResult and
\* cancelOperation ("strip /result", "strip /cancel"): [err, operation,
\* operationID].
DecodeStripLast(rawPath) ==
  LET split == pathSplit(pathDir(rawPath))
      id == PathUnescape(split[2])
      op == PathUnescape(pathBase(split[1]))
  IN  [err |-> id.err \/ op.err, operation |-> op.s, operationID |-> id.s]

\* The segment decoding at the head of getOperationInfo.
DecodeInfo(rawPath) ==
  LET split == pathSplit(rawPath)
      id == PathUnescape(split[2])
      op == PathUnescape(pathBase(split[1]))
  IN  [err |-> id.err \/ op.err, operation |-> op.s, operationID |-> id.s]

\* The segment decoding at the head of startOperation.
DecodeStart(rawPath) ==
  LET op == PathUnescape(pathBase(rawPath))
  IN  [err |-> op.err, operation |-> op.s, operationID |-> Str0]

\* The decoding each endpoint applies to the stripped encoded path.
DecodeFor(endpoint, rawPath) ==
  CASE endpoint = "getOperationResult" -> DecodeStripLast(rawPath)
    [] endpoint = "cancelOperation" -> DecodeStripLast(rawPath)
    [] endpoint = "getOperationInfo" -> DecodeInfo(rawPath)
    [] endpoint = "startOperation" -> DecodeStart(rawPath)
    [] OTHER -> [err |-> FALSE, operation |-> Str0, operationID |-> Str0]

\* The record handed to the endpoint.
Dispatched(endpoint, d) ==
  [endpoint |-> endpoint, err |-> d.err,
   operation |-> d.operation, operationID |-> d.operationID]

DispatchEndpoint(endpoint, rawPath) ==
  Dispatched(endpoint, DecodeFor(endpoint, rawPath))

\* A request below the mount prefix is routed, any other is not found.
DispatchStripped(method, m) ==
  DispatchEndpoint(IF m.found THEN Route(method, m) ELSE "notFound", m.RawPath)

\* What the dispatcher hands to the Handler for a request: the endpoint the
\* router selects and the decoded operation name and id.
Dispatch(method, url) == DispatchStripped(method, StripMount(url))

\* ------------------------------------------------------------------------
\* Time.  Durations and instants are integers in microseconds.
\* ------------------------------------------------------------------------

\* time.Millisecond, time.Second and time.Minute in the model's unit.
Millisecond == 1000
Second == 1000 * Millisecond
Minute == 60 * Second

\* const getResultContextPadding = time.Second * 5
getResultContextPadding == 5 * Second

\* Quotient truncated toward zero, as Go's integer division.
TruncDiv(a, b) == IF a >= 0 THEN a \div b ELSE 0 - ((0 - a) \div b)

\* Duration.Milliseconds()
Milliseconds(d) == TruncDiv(d, Millisecond)

\* The wait query parameter, fmt.Sprintf("%dms", wait.Milliseconds()): the
\* query is either empty or holds the whole number of milliseconds written.
EmptyQuery == [has |-> FALSE, ms |-> 0]
WaitQuery(d) == [has |-> TRUE, ms |-> Milliseconds(d)]

\* time.ParseDuration of a wait parameter "<n>ms".
ParseDuration(q) == q.ms * Millisecond

\* ------------------------------------------------------------------------
\* Wire vocabulary
\* ------------------------------------------------------------------------

StatusOK == 200
StatusCreated == 201
StatusAccepted == 202
StatusBadRequest == 400
StatusNotFound == 404
StatusRequestTimeout == 408
StatusInternalServerError == 500

\* The two reserved protocol status codes.
statusOperationRunning == 412
statusOperationFailed == 424

contentTypeJSON == "application/json"

OperationStateRunning == "running"
OperationStateSucceeded == "succeeded"
OperationStateFailed == "failed"
OperationStateCanceled == "canceled"

\* ------------------------------------------------------------------------
\* Failures, errors and HTTP responses
\* ------------------------------------------------------------------------

\* A Failure: its message, and whether json.Marshal accepts it (its opaque
\* structured fields may hold bytes that are not valid JSON).
NoFailure == [message |-> "<nil>", marshals |-> TRUE]
Boom == [message |-> "boom", marshals |-> TRUE]
Unmarshalable == [message |-> "bad details", marshals |-> FALSE]
InternalFailure == [message |-> "internal server error", marshals |-> TRUE]
StatusTextFailure == [message |-> "<status text>", marshals |-> TRUE]

\* Error values, all with the same fields.
Err(kind, state, code, failure, message) ==
  [kind |-> kind, state |-> state, code |-> code, failure |-> failure,
   message |-> message]

NilError == Err("nil", "", 0, NoFailure, "")
ErrOperationStillRunning == Err("stillRunning", "", 0, NoFailure, "")
errOperationWaitTimeout == Err("waitTimeout", "", 0, NoFailure, "")
UnsuccessfulOperationError(state, failure) ==
  Err("unsuccessful", state, 0, failure, "")
HandlerError(code, failure) == Err("handler", "", code, failure, "")
OtherError(message) == Err("other", "", 0, NoFailure, message)

\* newBadRequestError
newBadRequestError(message) ==
  HandlerError(StatusBadRequest, [message |-> message, marshals |-> TRUE])

\* Message bodies.
EmptyBody == [kind |-> "empty", failure |-> NoFailure]
JSONFailureBody(f) == [kind |-> "json", failure |-> f]
ResultBody == [kind |-> "result", failure |-> NoFailure]
GarbageBody == [kind |-> "garbage", failure |-> NoFailure]

\* What the http.ResponseWriter has received: the status line, the
\* Nexus-Operation-State and Content-Type headers and the body.  aborted
\* marks an exchange that ended without a response (the handler panicked
\* before a status was written, or the transport failed).
Response(status, opState, contentType, body) ==
  [status |-> status, opState |-> opState, contentType |-> contentType,
   body |-> body, aborted |-> FALSE]

NoResponse == Response(0, "", "", EmptyBody)

\* A panic in the handler: net/http recovers it and drops the connection.
PanicResponse == [NoResponse EXCEPT !.aborted = TRUE]

\* http.ResponseWriter.WriteHeader followed by Write: net/http panics on a
\* status code outside 100..999.
WriteHeaderAndBody(status, opState, contentType, body) ==
  IF status < 100 \/ status > 999 THEN PanicResponse
  ELSE Response(status, opState, contentType, body)

\* writeFailure putting the message of an unrecognised error in the Failure.
writeFailureLeaking(err) ==
  LET isUnsuccessful == err.kind = "unsuccessful"
      isHandler == err.kind = "handler"
      validState == err.state \in {OperationStateFailed, OperationStateCanceled}
      failure == IF isUnsuccessful \/ isHandler THEN err.failure
                 ELSE [message |-> err.message, marshals |-> TRUE]
      hasFailure == ~isHandler \/ err.failure # NoFailure
      statusCode == IF isUnsuccessful THEN statusOperationFailed
                    ELSE IF isHandler THEN err.code
                    ELSE StatusInternalServerError
      opState == IF isUnsuccessful /\ validState THEN err.state ELSE ""
  IN  IF isUnsuccessful /\ ~validState
      THEN Response(StatusInternalServerError, "", "", EmptyBody)
      ELSE IF hasFailure /\ ~failure.marshals
      THEN Response(StatusInternalServerError, opState, "", EmptyBody)
      ELSE IF hasFailure
      THEN WriteHeaderAndBody(statusCode, opState, contentTypeJSON,
                              JSONFailureBody(failure))
      ELSE WriteHeaderAndBody(statusCode, opState, "", EmptyBody)

\* writeFailure without the operation-state header.
writeFailureNoStateHeader(err) ==
  LET isUnsuccessful == err.kind = "unsuccessful"
      isHandler == err.kind = "handler"
      validState == err.state \in {OperationStateFailed, OperationStateCanceled}
      failure == IF isUnsuccessful \/ isHandler THEN err.failure
                 ELSE InternalFailure
      hasFailure == ~isHandler \/ err.failure # NoFailure
      statusCode == IF isUnsuccessful THEN statusOperationFailed
                    ELSE IF isHandler THEN err.code
                    ELSE StatusInternalServerError
  IN  IF isUnsuccessful /\ ~validState
      THEN Response(StatusInternalServerError, "", "", EmptyBody)
      ELSE IF hasFailure /\ ~failure.marshals
      THEN Response(StatusInternalServerError, "", "", EmptyBody)
      ELSE IF hasFailure
      THEN WriteHeaderAndBody(statusCode, "", contentTypeJSON,
                              JSONFailureBody(failure))
      ELSE WriteHeaderAndBody(statusCode, "", "", EmptyBody)

\* baseHTTPHandler.writeFailure
writeFailure(err) ==
  LET isUnsuccessful == err.kind = "unsuccessful"
      isHandler == err.kind = "handler"
      validState == err.state \in {OperationStateFailed, OperationStateCanceled}
      failure == IF isUnsuccessful \/ isHandler THEN err.failure
                 ELSE InternalFailure
      \* only a HandlerError's Failure is a pointer that may be nil
      hasFailure == ~isHandler \/ err.failure # NoFailure
      statusCode == IF isUnsuccessful THEN statusOperationFailed
                    ELSE IF isHandler THEN err.code
                    ELSE StatusInternalServerError
      opState == IF isUnsuccessful /\ validState THEN err.state ELSE ""
  IN  IF isUnsuccessful /\ ~validState
      THEN Response(StatusInternalServerError, "", "", EmptyBody)
      ELSE IF hasFailure /\ ~failure.marshals
      THEN Response(StatusInternalServerError, opState, "", EmptyBody)
      ELSE IF hasFailure
      THEN WriteHeaderAndBody(statusCode, opState, contentTypeJSON,
                              JSONFailureBody(failure))
      ELSE WriteHeaderAndBody(statusCode, opState, "", EmptyBody)

\* OperationResponseSync.applyToHTTPResponse: the headers are copied, the
\* body is streamed, the status stays the implicit 200.
applySyncResponse == Response(StatusOK, "", contentTypeJSON, ResultBody)

\* ------------------------------------------------------------------------
\* Client: interpretation of a GetResult response
\* ------------------------------------------------------------------------

Ok == Err("ok", "", 0, NoFailure, "")
NotReturned == Err("none", "", 0, NoFailure, "")
TransportError == Err("transport", "", 0, NoFailure, "")
PlainError(message) == Err("plain", "", 0, NoFailure, message)

isMediaTypeJSON(contentType) == contentType = contentTypeJSON

\* failureFromResponse: the body decodes as a Failure only when the
\* Content-Type is JSON and the body is the JSON encoding of a Failure.
failureFromResponse(resp) ==
  IF isMediaTypeJSON(resp.contentType) /\ resp.body.kind = "json"
  THEN [err |-> FALSE, failure |-> resp.body.failure]
  ELSE [err |-> TRUE, failure |-> NoFailure]

\* getUnsuccessfulStateFromHeader: the operation-state header must name an
\* unsuccessful terminal state.
getUnsuccessfulStateFromHeader(resp) ==
  IF resp.opState \in {OperationStateFailed, OperationStateCanceled}
  THEN [err |-> FALSE, state |-> resp.opState]
  ELSE [err |-> TRUE, state |-> ""]

\* bestEffortHandlerErrorFromResponse: the Failure of the body when it
\* decodes, a synthesized Failure carrying the status text otherwise.
bestEffortHandlerErrorFromResponse(resp) ==
  LET f == failureFromResponse(resp)
  IN  HandlerError(resp.status,
                   IF f.err THEN StatusTextFailure ELSE f.failure)

\* sendGetOperationRequest without the check of the operation-state header.
sendGetOperationRequestAnyState(resp) ==
  IF resp.aborted THEN TransportError
  ELSE IF resp.status = StatusOK THEN Ok
  ELSE IF resp.status = StatusRequestTimeout THEN errOperationWaitTimeout
  ELSE IF resp.status = statusOperationRunning THEN ErrOperationStillRunning
  ELSE IF resp.status = statusOperationFailed
  THEN LET f == failureFromResponse(resp)
       IN  IF f.err THEN PlainError("invalid failure body")
           ELSE UnsuccessfulOperationError(resp.opState, f.failure)
  ELSE bestEffortHandlerErrorFromResponse(resp)

\* OperationHandle.sendGetOperationRequest, given what HTTPCaller returned:
\* Ok stands for (response, nil), every other value for (nil, err).
sendGetOperationRequest(resp) ==
  IF resp.aborted THEN TransportError
  ELSE IF resp.status = StatusOK THEN Ok
  ELSE IF resp.status = StatusRequestTimeout THEN errOperationWaitTimeout
  ELSE IF resp.status = statusOperationRunning THEN ErrOperationStillRunning
  ELSE IF resp.status = statusOperationFailed
  THEN LET st == getUnsuccessfulStateFromHeader(resp)
           f == failureFromResponse(resp)
       IN  IF st.err THEN PlainError("invalid operation state header")
           ELSE IF f.err THEN PlainError("invalid failure body")
           ELSE UnsuccessfulOperationError(st.state, f.failure)
  ELSE bestEffortHandlerErrorFromResponse(resp)

\* ------------------------------------------------------------------------
\* HTTP headers
\* ------------------------------------------------------------------------

headerUserAgent == "User-Agent"
headerOperationState == "Nexus-Operation-State"
HeaderOperationID == "Nexus-Operation-Id"
headerOperationStartTime == "Nexus-Operation-Start-Time"
headerLink == "Nexus-Link"
headerContentType == "Content-Type"
headerRequestTimeout == "Nexus-Request-Timeout"

\* The SDK's user-agent string.
userAgent == "Nexus-go-sdk"

\* A header the protocol does not reserve.
headerCustom == "Nexus-X"

\* The headers named in the wire vocabulary.
ReservedHeaders ==
  {headerUserAgent, headerOperationState, HeaderOperationID,
   headerOperationStartTime, headerLink, headerContentType,
   headerRequestTimeout}

HeaderNames == ReservedHeaders \cup {headerCustom}

\* An http.Header, by canonical name; Get returns "" for a name not set.
NoHeader == [k \in HeaderNames |-> ""]
HeaderGet(h, k) == h[k]
HeaderSet(h, k, v) == [h EXCEPT ![k] = v]

\* addContextTimeoutToHTTPHeader: the deadline of the context, when it has
\* one, is projected onto the request-timeout header.
addContextTimeoutToHTTPHeader(deadline, h) ==
  IF deadline.set THEN HeaderSet(h, headerRequestTimeout, "deadline") ELSE h

\* addNexusHeaderToHTTPHeader: the user-supplied entries are merged into the
\* request header; an entry never replaces a reserved header already set.
addNexusHeaderToHTTPHeader(nexusHeader, h) ==
  [k \in HeaderNames |->
     IF nexusHeader[k] = "" THEN h[k]
     ELSE IF k \in ReservedHeaders /\ h[k] # "" THEN h[k]
     ELSE nexusHeader[k]]

\* The request header of GetInfo.
GetInfoHeader(deadline, optionsHeader) ==
  HeaderSet(addNexusHeaderToHTTPHeader(
              optionsHeader, addContextTimeoutToHTTPHeader(deadline, NoHeader)),
            headerUserAgent, userAgent)

\* The request header of GetResult and of Cancel.
GetResultHeader(deadline, optionsHeader) ==
  addNexusHeaderToHTTPHeader(
    optionsHeader,
    HeaderSet(addContextTimeoutToHTTPHeader(deadline, NoHeader),
              headerUserAgent, userAgent))

\* The request header without the forced User-Agent.
ClientHeaderUnforced(c, deadline, optionsHeader) ==
  addNexusHeaderToHTTPHeader(
    optionsHeader, addContextTimeoutToHTTPHeader(deadline, NoHeader))

\* The request header each client call builds.
ClientHeader(c, deadline, optionsHeader) ==
  IF c = "GetInfo" THEN GetInfoHeader(deadline, optionsHeader)
  ELSE GetResultHeader(deadline, optionsHeader)

\* ------------------------------------------------------------------------
\* Inputs of the model
\* ------------------------------------------------------------------------

\* GetOperationResultOptions.Wait: zero (the default), below one
\* millisecond, a fraction of milliseconds, and longer than the padding.
WaitOptions == {0, 500, 2500, 6 * Second}

\* The context deadline, relative to the clock at the call (now = 0): none,
\* passed by more than the padding, passed by less than the padding, ahead.
NoDeadline == [set |-> FALSE, at |-> 0]
Deadlines ==
  {NoDeadline,
   [set |-> TRUE, at |-> 0 - getResultContextPadding - 1500],
   [set |-> TRUE, at |-> 0 - getResultContextPadding + 700],
   [set |-> TRUE, at |-> 500 * Millisecond]}

\* options.Header of a client call: nothing, a custom entry, an entry named
\* like the forced User-Agent, both.
UserHeaders ==
  {NoHeader,
   HeaderSet(NoHeader, headerCustom, "1"),
   HeaderSet(NoHeader, headerUserAgent, "curl"),
   HeaderSet(HeaderSet(NoHeader, headerCustom, "1"), headerUserAgent, "curl")}

\* One handle whose name and id need no escaping, one whose name does.
HandleIdentities == {<< <<"a">>, <<"a">> >>, << <<"a", "/">>, <<"a">> >>}

\* HandlerOptions.GetResultTimeout as given to NewHTTPHandler.
GetResultTimeoutOptions == {0, 2 * Second}

\* NewHTTPHandler: GetResultTimeout defaults to one minute.
NewHTTPHandlerTimeout(option) == IF option = 0 THEN Minute ELSE option

\* How long the user Handler takes, and the time a round trip adds to it.
HandlerDurations == {1500 * Millisecond, 2 * Second, Minute}
NetDelay == 300

\* Errors a Handler may return from GetOperationResult.
HandlerErrorCodes ==
  {0, StatusOK, StatusBadRequest, StatusRequestTimeout,
   statusOperationRunning, statusOperationFailed}
HandlerErrors ==
  {ErrOperationStillRunning, OtherError("secret"),
   UnsuccessfulOperationError(OperationStateFailed, Boom),
   UnsuccessfulOperationError(OperationStateCanceled, Boom),
   UnsuccessfulOperationError(OperationStateRunning, Boom),
   UnsuccessfulOperationError(OperationStateFailed, Unmarshalable),
   HandlerError(StatusInternalServerError, Unmarshalable)}
  \cup {HandlerError(c, f) : c \in HandlerErrorCodes, f \in {NoFailure, Boom}}

\* (response, error) pairs a Handler may return: a response, nothing at
\* all, an error, or a response together with an error.
HandlerReturns ==
  {[resp |-> "sync", err |-> NilError], [resp |-> "nil", err |-> NilError],
   [resp |-> "sync", err |-> ErrOperationStillRunning]}
  \cup {[resp |-> "nil", err |-> e] : e \in HandlerErrors}

\* Responses of a peer that is not this dispatcher (another server, a proxy
\* or load balancer), and a failed exchange.
ForeignResponses ==
  {Response(st, "", "", EmptyBody) :
     st \in {StatusRequestTimeout, statusOperationRunning}}
  \cup {Response(StatusOK, "", contentTypeJSON, ResultBody)}
  \cup {Response(st, os, ct, b) :
          st \in {statusOperationFailed, StatusInternalServerError},
          os \in {"", OperationStateFailed, OperationStateRunning},
          ct \in {"", contentTypeJSON},
          b \in {EmptyBody, JSONFailureBody(Boom), GarbageBody}}
  \cup {PanicResponse}
ForeignDelay == 3 * Second

\* ------------------------------------------------------------------------
\* State
\* ------------------------------------------------------------------------

VARIABLES
  pc,               \* position of the client call
  call,             \* which client method runs: GetInfo, GetResult, Cancel
  hOperation,       \* OperationHandle.Operation
  hID,              \* OperationHandle.ID
  optWait,          \* options.Wait
  ctxDeadline,      \* ctx.Deadline()
  now,              \* the clock
  startTime,        \* startTime of GetResult
  wait,             \* the loop variable wait of GetResult
  request,          \* the (reused) outbound http.Request
  nreq,             \* number of calls of HTTPCaller made by the client call
  getResultTimeout, \* httpHandler.options.GetResultTimeout
  srv,              \* what the dispatcher did with the request in flight
  response,         \* what HTTPCaller returned for the request in flight
  result,           \* the error (or Ok) the client call returned
  optHeader,        \* options.Header of the client call
  httpHeader,       \* the header of the outbound http.Request
  bodyCloses,       \* Close calls made on the Handler's sync response body
  completion,       \* the OperationCompletion given to NewCompletionHTTPRequest
  delivered,        \* what CompletionHandler.CompleteOperation received
  cancels,          \* the concurrent Cancel requests, one record each
  handleT,          \* the type parameter T of the OperationHandle
  lazy              \* the LazyValue of GetResult and what was done with it

vars == <<pc, call, hOperation, hID, optWait, ctxDeadline, now, startTime,
          wait, request, nreq, getResultTimeout, srv, response, result,
          optHeader, httpHeader, bodyCloses, completion, delivered, cancels,
          handleT, lazy>>

\* The variables of the completion channel and of the concurrent cancels.
completionVars == <<completion, delivered>>

\* The variables of the result routing of GetResult.
resultVars == <<handleT, lazy>>

NoRequest == [method |-> "", url |-> setPath(Str0), query |-> EmptyQuery]

\* The dispatcher's record of a request: the endpoint routed to, the decoded
\* GetOperationResultRequest fields, ctx.Err() after the Handler returned,
\* what the Handler returned, and the branch that wrote the response.
Served(endpoint, operation, operationID, hasWait, w, called, ctxErr, ret, branch) ==
  [served |-> TRUE, endpoint |-> endpoint, operation |-> operation,
   operationID |-> operationID, hasWait |-> hasWait, wait |-> w,
   called |-> called, ctxErr |-> ctxErr, ret |-> ret, branch |-> branch]

NoReturn == [resp |-> "nil", err |-> NilError]

NotServed ==
  [Served("", Str0, Str0, FALSE, 0, FALSE, "nil", NoReturn, "")
   EXCEPT !.served = FALSE]

\* An OperationCompletion: OperationCompletionSuccessful or
\* OperationCompletionUnsuccessful with its fields (State is succeeded for
\* the former, Failure is used by the latter only).
OperationCompletion(kind, header, state, operationID, started, startLinks, failure) ==
  [kind |-> kind, Header |-> header, State |-> state,
   OperationID |-> operationID, StartTime |-> started,
   StartLinks |-> startLinks, Failure |-> failure]

NoCompletion == OperationCompletion("none", NoHeader, "", "", "", "", NoFailure)

\* A CompletionRequest, and the record of the calls of CompleteOperation.
CompletionRequest(state, operationID, started, startLinks, failure, hasResult) ==
  [State |-> state, OperationID |-> operationID, StartTime |-> started,
   StartLinks |-> startLinks, Failure |-> failure, hasResult |-> hasResult]

NotDelivered ==
  [calls |-> 0, req |-> CompletionRequest("", "", "", "", NoFailure, FALSE)]

\* The number of Cancel requests in flight at the same time.
MaxCancels == 2
CancelRequests == 1 .. MaxCancels

\* One Cancel request: the position of the client call, how often the
\* dispatcher invoked Handler.CancelOperation for it, whether another
\* invocation was running at that moment, what the Handler returned, the
\* response and the error the client's Cancel returned.
CancelRecord(cpc, calls, overlapped, ret, resp, res) ==
  [pc |-> cpc, calls |-> calls, overlapped |-> overlapped, ret |-> ret,
   response |-> resp, result |-> res]

NoCancels ==
  [i \in CancelRequests |->
     CancelRecord("idle", 0, FALSE, NilError, NoResponse, NotReturned)]

\* ------------------------------------------------------------------------
\* Client: OperationHandle.GetResult
\* ------------------------------------------------------------------------

\* The request GetResult builds before its loop, and the loop variables.
GetResultBegin ==
  /\ pc = "idle"
  /\ call = "GetResult"
  /\ request' = [method |-> "GET",
                 url |-> ClientURL("GetResult", hOperation, hID),
                 query |-> EmptyQuery]
  /\ startTime' = now
  /\ wait' = optWait
  /\ httpHeader' = GetResultHeader(ctxDeadline, optHeader)
  /\ pc' = "top"
  /\ UNCHANGED <<call, hOperation, hID, optWait, ctxDeadline, now, nreq,
                 getResultTimeout, srv, response, result, optHeader,
                 bodyCloses, cancels>>
  /\ UNCHANGED completionVars
  /\ UNCHANGED resultVars

\* wait = min(wait, time.Until(deadline) + getResultContextPadding), applied
\* when wait > 0 and the context has a deadline.
clampWait(w, deadline, t) ==
  IF w > 0 /\ deadline.set
  THEN Min(w, (deadline.at - t) + getResultContextPadding)
  ELSE w

\* prepareQuery without the reset of the query when wait is <= 0.
prepareQueryStale(q, w, clamped) ==
  IF w > 0 THEN WaitQuery(clamped) ELSE q

\* The query of the reused request after the head of a loop iteration: w is
\* wait at the top of the iteration, clamped the value after clamping.
prepareQuery(q, w, clamped) ==
  IF w > 0 THEN WaitQuery(clamped) ELSE EmptyQuery

\* The head of a loop iteration up to the call of HTTPCaller.
PrepareAndSend ==
  /\ pc = "top"
  /\ wait' = clampWait(wait, ctxDeadline, now)
  /\ request' = [request EXCEPT !.query = prepareQuery(@, wait, wait')]
  /\ nreq' = nreq + 1
  /\ pc' = "inflight"
  /\ UNCHANGED <<call, hOperation, hID, optWait, ctxDeadline, now, startTime,
                 getResultTimeout, srv, response, result, optHeader,
                 httpHeader, bodyCloses, cancels>>
  /\ UNCHANGED completionVars
  /\ UNCHANGED resultVars

\* shouldRetry deciding on options.Wait instead of the current wait.
shouldRetryOnOption(w, option, err) ==
  option > 0 /\ err = errOperationWaitTimeout

\* shouldRetry without the test of wait.
shouldRetryAlways(w, option, err) == err = errOperationWaitTimeout

\* if wait > 0 && errors.Is(err, errOperationWaitTimeout)
shouldRetry(w, option, err) == w > 0 /\ err = errOperationWaitTimeout

\* remainingWait adding the time elapsed since the call started.
remainingWaitGrowing(option, start, t) == option + (t - start)

\* remainingWait without the time elapsed since the call started.
remainingWaitWhole(option, start, t) == option

\* wait = options.Wait - time.Since(startTime)
remainingWait(option, start, t) == option - (t - start)

\* What GetResult did with the LazyValue it built around the response body:
\* how many it constructed, the Consume calls it made on it, the reads and
\* Close calls on the body, and the value it returned.
LazyValue(constructed, consumes, reads, closes, value) ==
  [constructed |-> constructed, consumes |-> consumes, reads |-> reads,
   closes |-> closes, value |-> value]

NoLazyValue == LazyValue(0, 0, 0, 0, "zero")

\* The types T a handle is instantiated with: *LazyValue, or a type the
\* result is decoded into.
HandleTypes == {"*LazyValue", "decoded"}

\* The errors LazyValue.Consume may return: none, or the error of reading or
\* of deserializing the body.
ConsumeErrors == {Ok, PlainError("deserialize")}

\* routeResult calling Consume for every T.
routeResultConsumeAlways(T, consumeErr) ==
  [lazy |-> LazyValue(1, 1, 1, 1,
                      IF consumeErr = Ok THEN "decoded" ELSE "zero"),
   err |-> consumeErr]

\* The tail of GetResult on a 200 response: the LazyValue is built, returned
\* as it is when T is *LazyValue, and consumed into the result otherwise
\* (Consume drains the body, deserializes and closes it).
routeResult(T, consumeErr) ==
  IF T = "*LazyValue"
  THEN [lazy |-> LazyValue(1, 0, 0, 0, "lazy"), err |-> Ok]
  ELSE [lazy |-> LazyValue(1, 1, 1, 1,
                           IF consumeErr = Ok THEN "decoded" ELSE "zero"),
        err |-> consumeErr]

\* The rest of a loop iteration: the response is interpreted, and the call
\* either goes around the loop or returns.
ReceiveResponse ==
  /\ pc = "responded"
  /\ call = "GetResult"
  /\ LET err == sendGetOperationRequest(response)
     IN  IF err # Ok /\ shouldRetry(wait, optWait, err)
         THEN /\ wait' = remainingWait(optWait, startTime, now)
              /\ pc' = "top"
              /\ response' = NoResponse
              /\ srv' = NotServed
              /\ bodyCloses' = 0
              /\ UNCHANGED <<result, lazy>>
         ELSE IF err # Ok
         THEN /\ result' = err
              /\ pc' = "done"
              /\ UNCHANGED <<wait, response, srv, bodyCloses, lazy>>
         ELSE \E consumeErr \in ConsumeErrors :
                /\ lazy' = routeResult(handleT, consumeErr).lazy
                /\ result' = routeResult(handleT, consumeErr).err
                /\ pc' = "done"
                /\ UNCHANGED <<wait, response, srv, bodyCloses>>
  /\ UNCHANGED <<call, hOperation, hID, optWait, ctxDeadline, now, startTime,
                 request, nreq, getResultTimeout, optHeader, httpHeader,
                 cancels, handleT>>
  /\ UNCHANGED completionVars

\* ------------------------------------------------------------------------
\* Server: httpHandler.getOperationResult
\* ------------------------------------------------------------------------

\* ctxErrAfter deriving the timeout for every request.
ctxErrAfterEveryRequest(hasWait, timeout, dur, canceled) ==
  IF dur >= timeout THEN "DeadlineExceeded"
  ELSE IF canceled THEN "Canceled"
  ELSE "nil"

\* ctx.Err() when the Handler returns after dur: the context is derived with
\* the GetResult timeout only when the wait parameter is present, and it is
\* done as well when the request's own context was canceled.
ctxErrAfter(hasWait, timeout, dur, canceled) ==
  IF hasWait /\ dur >= timeout THEN "DeadlineExceeded"
  ELSE IF canceled THEN "Canceled"
  ELSE "nil"

\* resultBranch testing for ErrOperationStillRunning before the timeout.
resultBranchRunningFirst(w, ctxErr, ret) ==
  IF ret.err # NilError
  THEN IF ret.err = ErrOperationStillRunning THEN "running"
       ELSE IF w > 0 /\ ctxErr # "nil" THEN "timeout"
       ELSE "writeFailure"
  ELSE "apply"

\* The branch of getOperationResult that writes the response.
resultBranch(w, ctxErr, ret) ==
  IF ret.err # NilError
  THEN IF w > 0 /\ ctxErr # "nil" THEN "timeout"
       ELSE IF ret.err = ErrOperationStillRunning THEN "running"
       ELSE "writeFailure"
  ELSE "apply"

\* The response each branch writes.  A nil response without an error is a
\* nil pointer dereference in applyToHTTPResponse.
resultResponse(branch, ret) ==
  CASE branch = "timeout" -> Response(StatusRequestTimeout, "", "", EmptyBody)
    [] branch = "running" ->
         Response(statusOperationRunning, "", "", EmptyBody)
    [] branch = "writeFailure" -> writeFailure(ret.err)
    [] branch = "apply" ->
         IF ret.resp = "nil" THEN PanicResponse ELSE applySyncResponse

\* How often the dispatcher closes the body of the OperationResponseSync the
\* Handler returned: applyToHTTPResponse defers the Close, and it runs only
\* on the branch without an error.
syncBodyCloses(branch, ret) ==
  IF branch = "apply" /\ ret.resp = "sync" THEN 1 ELSE 0

\* The dispatcher serves the request in flight: the router selects the
\* endpoint, getOperationResult decodes the path and the wait parameter,
\* calls the Handler and renders what it returned.
ServeGetResult ==
  /\ pc = "inflight"
  /\ call = "GetResult"
  /\ LET d == Dispatch(request.method, request.url)
         hasWait == request.query.has
         w == IF hasWait THEN ParseDuration(request.query) ELSE 0
     IN
     \E ret \in HandlerReturns, dur \in HandlerDurations, canceled \in BOOLEAN :
       LET ctxErr == ctxErrAfter(hasWait, getResultTimeout, dur, canceled)
           branch == resultBranch(w, ctxErr, ret)
       IN  IF d.endpoint # "getOperationResult"
           THEN /\ response' = Response(StatusNotFound, "", "", EmptyBody)
                /\ srv' = Served(d.endpoint, Str0, Str0, FALSE, 0, FALSE,
                                 "nil", NoReturn, "notFound")
                /\ bodyCloses' = 0
                /\ now' = now + NetDelay
           ELSE IF d.err
           THEN /\ response' = writeFailure(
                                 newBadRequestError("failed to parse URL path"))
                /\ srv' = Served(d.endpoint, Str0, Str0, FALSE, 0, FALSE,
                                 "nil", NoReturn, "badRequest")
                /\ bodyCloses' = 0
                /\ now' = now + NetDelay
           ELSE /\ response' = resultResponse(branch, ret)
                /\ srv' = Served(d.endpoint, d.operation, d.operationID,
                                 hasWait, w, TRUE, ctxErr, ret, branch)
                /\ bodyCloses' = syncBodyCloses(branch, ret)
                /\ now' = now + dur + NetDelay
  /\ pc' = "responded"
  /\ UNCHANGED <<call, hOperation, hID, optWait, ctxDeadline, startTime, wait,
                 request, nreq, getResultTimeout, result, optHeader,
                 httpHeader, cancels>>
  /\ UNCHANGED completionVars
  /\ UNCHANGED resultVars

\* Some other peer answers the request in flight, or the exchange fails.
ForeignRespond ==
  /\ pc = "inflight"
  /\ call = "GetResult"
  /\ \E resp \in ForeignResponses : response' = resp
  /\ now' = now + ForeignDelay
  /\ srv' = NotServed
  /\ pc' = "responded"
  /\ UNCHANGED <<call, hOperation, hID, optWait, ctxDeadline, startTime, wait,
                 request, nreq, getResultTimeout, result, optHeader,
                 httpHeader, bodyCloses, cancels>>
  /\ UNCHANGED completionVars
  /\ UNCHANGED resultVars

\* ------------------------------------------------------------------------
\* The GetResult specification
\* ------------------------------------------------------------------------

Init ==
  /\ pc = "idle"
  /\ call = "GetResult"
  /\ \E h \in HandleIdentities : hOperation = h[1] /\ hID = h[2]
  /\ optWait \in WaitOptions
  /\ ctxDeadline \in Deadlines
  /\ now = 0
  /\ startTime = 0
  /\ wait = 0
  /\ request = NoRequest
  /\ nreq = 0
  /\ getResultTimeout \in {NewHTTPHandlerTimeout(o) : o \in GetResultTimeoutOptions}
  /\ srv = NotServed
  /\ response = NoResponse
  /\ result = NotReturned
  /\ optHeader = HeaderSet(NoHeader, headerCustom, "1")
  /\ httpHeader = NoHeader
  /\ bodyCloses = 0
  /\ completion = NoCompletion
  /\ delivered = NotDelivered
  /\ cancels = NoCancels
  /\ handleT = "*LazyValue"
  /\ lazy = NoLazyValue

Next ==
  \/ GetResultBegin
  \/ PrepareAndSend
  \/ ServeGetResult
  \/ ForeignRespond
  \/ ReceiveResponse

Spec == Init /\ [][Next]_vars

\* The GetResult specification with progress: the loop of GetResult runs
\* on (its head and its tail are straight-line code), and every HTTP call
\* returns, answered by the dispatcher or by another peer.
InitLive ==
  /\ Init
  /\ hOperation = <<"a">>
  /\ getResultTimeout = 2 * Second

HTTPCallReturns == ForeignRespond \/ ServeGetResult

SpecLive ==
  /\ InitLive
  /\ [][Next]_vars
  /\ WF_vars(PrepareAndSend)
  /\ WF_vars(HTTPCallReturns)
  /\ WF_vars(ReceiveResponse)

\* The result specification: GetResult on handles of either kind of T.
InitResult ==
  /\ pc = "idle"
  /\ call = "GetResult"
  /\ hOperation = <<"a">>
  /\ hID = <<"a">>
  /\ optWait \in {0, 2500 * Millisecond}
  /\ ctxDeadline = NoDeadline
  /\ now = 0
  /\ startTime = 0
  /\ wait = 0
  /\ request = NoRequest
  /\ nreq = 0
  /\ getResultTimeout = NewHTTPHandlerTimeout(2 * Second)
  /\ srv = NotServed
  /\ response = NoResponse
  /\ result = NotReturned
  /\ optHeader = NoHeader
  /\ httpHeader = NoHeader
  /\ bodyCloses = 0
  /\ completion = NoCompletion
  /\ delivered = NotDelivered
  /\ cancels = NoCancels
  /\ handleT \in HandleTypes
  /\ lazy = NoLazyValue

SpecResult == InitResult /\ [][Next]_vars

\* ------------------------------------------------------------------------
\* The URL specification: each client call builds its URL for every handle
\* identity, the router and the endpoint decode it.
\* ------------------------------------------------------------------------

\* GetInfo / GetResult / Cancel up to the call of HTTPCaller.
SendRequest ==
  /\ pc = "idle"
  /\ call \in Calls
  /\ request' = [method |-> CallMethod(call),
                 url |-> ClientURL(call, hOperation, hID),
                 query |-> EmptyQuery]
  /\ httpHeader' = ClientHeader(call, ctxDeadline, optHeader)
  /\ nreq' = nreq + 1
  /\ pc' = "inflight"
  /\ UNCHANGED <<call, hOperation, hID, optWait, ctxDeadline, now, startTime,
                 wait, getResultTimeout, srv, response, result, optHeader,
                 bodyCloses, cancels>>
  /\ UNCHANGED completionVars
  /\ UNCHANGED resultVars

\* The router and the head of the endpoint it selects, up to the
\* construction of the Handler's request.
RouteRequest ==
  /\ pc = "inflight"
  /\ LET d == Dispatch(request.method, request.url)
     IN  srv' = Served(d.endpoint, d.operation, d.operationID, FALSE, 0,
                       ~d.err /\ d.endpoint # "notFound", "nil", NoReturn,
                       IF d.endpoint = "notFound" THEN "notFound"
                       ELSE IF d.err THEN "badRequest" ELSE "handler")
  /\ pc' = "routed"
  /\ UNCHANGED <<call, hOperation, hID, optWait, ctxDeadline, now, startTime,
                 wait, request, nreq, getResultTimeout, response, result,
                 optHeader, httpHeader, bodyCloses, cancels>>
  /\ UNCHANGED completionVars
  /\ UNCHANGED resultVars

InitURL ==
  /\ pc = "idle"
  /\ call \in Calls
  /\ hOperation \in Names
  /\ hID \in Names
  /\ optWait = 0
  /\ ctxDeadline = NoDeadline
  /\ now = 0
  /\ startTime = 0
  /\ wait = 0
  /\ request = NoRequest
  /\ nreq = 0
  /\ getResultTimeout = Minute
  /\ srv = NotServed
  /\ response = NoResponse
  /\ result = NotReturned
  /\ optHeader \in UserHeaders
  /\ httpHeader = NoHeader
  /\ bodyCloses = 0
  /\ completion = NoCompletion
  /\ delivered = NotDelivered
  /\ cancels = NoCancels
  /\ handleT = "*LazyValue"
  /\ lazy = NoLazyValue

NextURL ==
  \/ SendRequest
  \/ RouteRequest

SpecURL == InitURL /\ [][NextURL]_vars

\* ------------------------------------------------------------------------
\* The completion channel: NewCompletionHTTPRequest and the completion
\* HTTP handler
\* ------------------------------------------------------------------------

\* time.Time values: the zero time and a start time with a fraction of a
\* second; Format(http.TimeFormat) writes whole seconds, http.ParseTime
\* reads them back.
ZeroTime == ""
StartedAt == "2006-01-02T15:04:05.5Z"
HTTPDate == "Mon, 02 Jan 2006 15:04:05 GMT"
FormatHTTPTime(t) == IF t = StartedAt THEN HTTPDate ELSE "<other date>"
ParseTime(v) ==
  IF v = HTTPDate THEN [err |-> FALSE, t |-> "2006-01-02T15:04:05Z"]
  ELSE [err |-> TRUE, t |-> ZeroTime]

\* Links and their header encoding.
NoLinks == ""
OneLink == "l1"
addLinksToHTTPHeader(links, h) ==
  IF links = NoLinks THEN h ELSE HeaderSet(h, headerLink, "<l1>")
getLinksFromHeader(h) ==
  IF HeaderGet(h, headerLink) = "" THEN [err |-> FALSE, links |-> NoLinks]
  ELSE IF HeaderGet(h, headerLink) = "<l1>"
  THEN [err |-> FALSE, links |-> OneLink]
  ELSE [err |-> TRUE, links |-> NoLinks]

\* json.Marshal of a nil *Failure is the text null; json.Unmarshal of null
\* leaves the zero Failure.
JSONNullBody == [kind |-> "null", failure |-> NoFailure]
ZeroFailure == [message |-> "", marshals |-> TRUE]

\* json.Unmarshal(b, &failure)
unmarshalFailure(body) ==
  IF body.kind = "json" THEN [err |-> FALSE, failure |-> body.failure]
  ELSE IF body.kind = "null" THEN [err |-> FALSE, failure |-> ZeroFailure]
  ELSE [err |-> TRUE, failure |-> ZeroFailure]

\* HandlerErrorf(HandlerErrorTypeBadRequest, ...): a HandlerError answered
\* as 400 bad request.
HandlerErrorTypeBadRequest == "BAD_REQUEST"
HandlerErrorf(errType, message) ==
  HandlerError(IF errType = HandlerErrorTypeBadRequest THEN StatusBadRequest
               ELSE StatusInternalServerError,
               [message |-> message, marshals |-> TRUE])

\* applyToHTTPRequest of OperationCompletionSuccessful and of
\* OperationCompletionUnsuccessful: the header and body of the request, or
\* an error.
applyToHTTPRequest(c) ==
  LET successful == c.kind = "successful"
      state == IF successful THEN OperationStateSucceeded ELSE c.State
      h1 == HeaderSet(c.Header, headerOperationState, state)
      h2 == IF successful THEN h1
            ELSE HeaderSet(h1, headerContentType, contentTypeJSON)
      h3 == IF HeaderGet(c.Header, HeaderOperationID) = ""
               /\ c.OperationID # ""
            THEN HeaderSet(h2, HeaderOperationID, c.OperationID) ELSE h2
      h4 == IF HeaderGet(c.Header, headerOperationStartTime) = ""
               /\ c.StartTime # ZeroTime
            THEN HeaderSet(h3, headerOperationStartTime,
                           FormatHTTPTime(c.StartTime))
            ELSE h3
      h5 == IF HeaderGet(c.Header, headerLink) = ""
            THEN addLinksToHTTPHeader(c.StartLinks, h4) ELSE h4
  IN  [err |-> ~successful /\ ~c.Failure.marshals,
       header |-> h5,
       body |-> IF successful THEN ResultBody
                ELSE IF c.Failure = NoFailure THEN JSONNullBody
                ELSE JSONFailureBody(c.Failure)]

\* The URL completions are delivered to.
CallbackPath == <<"/", "c", "b">>

\* Header fields a caller may put into a completion: nothing, a custom
\* entry, and entries named like the headers the SDK writes.
CompletionHeaders ==
  {NoHeader,
   HeaderSet(NoHeader, headerCustom, "1"),
   HeaderSet(NoHeader, headerOperationState, OperationStateFailed),
   HeaderSet(NoHeader, HeaderOperationID, "other"),
   HeaderSet(NoHeader, headerUserAgent, "curl"),
   HeaderSet(NoHeader, headerOperationStartTime, "yesterday"),
   HeaderSet(NoHeader, headerLink, "garbage"),
   HeaderSet(NoHeader, headerContentType, "text/plain")}

\* The completions given to NewCompletionHTTPRequest.
Completions ==
  {OperationCompletion("successful", h, OperationStateSucceeded, id, t, l,
                       NoFailure) :
     h \in CompletionHeaders, id \in {"", "id1"},
     t \in {ZeroTime, StartedAt}, l \in {NoLinks, OneLink}}
  \cup
  {OperationCompletion("unsuccessful", h, st, id, ZeroTime, NoLinks, f) :
     h \in CompletionHeaders,
     st \in {OperationStateFailed, OperationStateCanceled,
             OperationStateRunning, ""},
     id \in {"", "id1"}, f \in {NoFailure, Boom, Unmarshalable}}

\* Completion requests of a peer that did not build them with this SDK.
ForeignCompletionRequests ==
  {[header |->
      [NoHeader EXCEPT ![headerOperationState] = st,
                       ![headerContentType] = ct,
                       ![headerLink] = l,
                       ![headerOperationStartTime] = t],
    body |-> b] :
     st \in {"", OperationStateRunning, OperationStateSucceeded,
             OperationStateFailed, OperationStateCanceled},
     ct \in {"", contentTypeJSON, "text/plain"},
     l \in {"", "<l1>", "garbage"},
     t \in {"", HTTPDate, "yesterday"},
     b \in {EmptyBody, JSONFailureBody(Boom), GarbageBody}}

\* Errors a CompletionHandler may return from CompleteOperation.
CompletionHandlerErrors ==
  {NilError, OtherError("secret"), OtherError("another secret"),
   HandlerError(StatusBadRequest, Boom),
   UnsuccessfulOperationError(OperationStateFailed, Boom)}

\* NewCompletionHTTPRequest
NewCompletionHTTPRequest ==
  /\ pc = "idle"
  /\ call = "Completion"
  /\ completion # NoCompletion
  /\ LET r == applyToHTTPRequest(completion)
     IN  IF r.err
         THEN /\ result' = PlainError("json: unsupported value")
              /\ pc' = "done"
              /\ UNCHANGED <<request, httpHeader, nreq>>
         ELSE /\ request' = [method |-> "POST", url |-> setPath(CallbackPath),
                             query |-> EmptyQuery, body |-> r.body]
              /\ httpHeader' = HeaderSet(r.header, headerUserAgent, userAgent)
              /\ nreq' = nreq + 1
              /\ pc' = "inflight"
              /\ UNCHANGED result
  /\ UNCHANGED <<call, hOperation, hID, optWait, ctxDeadline, now, startTime,
                 wait, getResultTimeout, srv, response, optHeader, bodyCloses,
                 cancels>>
  /\ UNCHANGED completionVars
  /\ UNCHANGED resultVars

\* A completion request that was not built by NewCompletionHTTPRequest.
ForeignCompletionRequest ==
  /\ pc = "idle"
  /\ call = "Completion"
  /\ completion = NoCompletion
  /\ \E r \in ForeignCompletionRequests :
       /\ request' = [method |-> "POST", url |-> setPath(CallbackPath),
                      query |-> EmptyQuery, body |-> r.body]
       /\ httpHeader' = r.header
  /\ nreq' = nreq + 1
  /\ pc' = "inflight"
  /\ UNCHANGED <<call, hOperation, hID, optWait, ctxDeadline, now, startTime,
                 wait, getResultTimeout, srv, response, result, optHeader,
                 bodyCloses, cancels>>
  /\ UNCHANGED completionVars
  /\ UNCHANGED resultVars

\* decodeCompletion wrapping the body in a Result for every state.
decodeCompletionResultAlways(h, body) ==
  LET state == HeaderGet(h, headerOperationState)
      operationID == HeaderGet(h, HeaderOperationID)
      startTimeHeader == HeaderGet(h, headerOperationStartTime)
      t == IF startTimeHeader # "" THEN ParseTime(startTimeHeader)
           ELSE [err |-> FALSE, t |-> ZeroTime]
      l == getLinksFromHeader(h)
      f == unmarshalFailure(body)
      bad(message) ==
        [err |-> TRUE, message |-> message,
         req |-> CompletionRequest(state, operationID, t.t, l.links,
                                   NoFailure, FALSE)]
  IN  IF t.err THEN bad("failed to parse operation start time header")
      ELSE IF l.err THEN bad("failed to decode links from request headers")
      ELSE IF state \in {OperationStateFailed, OperationStateCanceled}
      THEN IF ~isMediaTypeJSON(HeaderGet(h, headerContentType))
           THEN bad("invalid request content type")
           ELSE IF f.err THEN bad("failed to read Failure from request body")
           ELSE [err |-> FALSE, message |-> "",
                 req |-> CompletionRequest(state, operationID, t.t, l.links,
                                           f.failure, TRUE)]
      ELSE IF state = OperationStateSucceeded
      THEN [err |-> FALSE, message |-> "",
            req |-> CompletionRequest(state, operationID, t.t, l.links,
                                      NoFailure, TRUE)]
      ELSE bad("invalid request operation state")

\* decodeCompletion accepting every operation state as succeeded.
decodeCompletionAnyState(h, body) ==
  [err |-> FALSE, message |-> "",
   req |-> CompletionRequest(HeaderGet(h, headerOperationState),
                             HeaderGet(h, HeaderOperationID), ZeroTime,
                             NoLinks, NoFailure, TRUE)]

\* completionHTTPHandler.ServeHTTP up to the call of CompleteOperation: the
\* CompletionRequest it builds, or the bad-request message.
decodeCompletion(h, body) ==
  LET state == HeaderGet(h, headerOperationState)
      operationID == HeaderGet(h, HeaderOperationID)
      startTimeHeader == HeaderGet(h, headerOperationStartTime)
      t == IF startTimeHeader # "" THEN ParseTime(startTimeHeader)
           ELSE [err |-> FALSE, t |-> ZeroTime]
      l == getLinksFromHeader(h)
      f == unmarshalFailure(body)
      bad(message) ==
        [err |-> TRUE, message |-> message,
         req |-> CompletionRequest(state, operationID, t.t, l.links,
                                   NoFailure, FALSE)]
  IN  IF t.err THEN bad("failed to parse operation start time header")
      ELSE IF l.err THEN bad("failed to decode links from request headers")
      ELSE IF state \in {OperationStateFailed, OperationStateCanceled}
      THEN IF ~isMediaTypeJSON(HeaderGet(h, headerContentType))
           THEN bad("invalid request content type")
           ELSE IF f.err THEN bad("failed to read Failure from request body")
           ELSE [err |-> FALSE, message |-> "",
                 req |-> CompletionRequest(state, operationID, t.t, l.links,
                                           f.failure, FALSE)]
      ELSE IF state = OperationStateSucceeded
      THEN [err |-> FALSE, message |-> "",
            req |-> CompletionRequest(state, operationID, t.t, l.links,
                                      NoFailure, TRUE)]
      ELSE bad("invalid request operation state")

\* completionHTTPHandler.ServeHTTP
ServeCompletion ==
  /\ pc = "inflight"
  /\ call = "Completion"
  /\ LET d == decodeCompletion(httpHeader, request.body)
     IN  IF d.err
         THEN /\ response' = writeFailure(
                               HandlerErrorf(HandlerErrorTypeBadRequest,
                                             d.message))
              /\ srv' = Served("completion", Str0, Str0, FALSE, 0, FALSE,
                               "nil", NoReturn, "badRequest")
              /\ UNCHANGED delivered
         ELSE \E err \in CompletionHandlerErrors :
                /\ delivered' = [calls |-> delivered.calls + 1, req |-> d.req]
                /\ response' = IF err = NilError
                               THEN Response(StatusOK, "", "", EmptyBody)
                               ELSE writeFailure(err)
                /\ srv' = Served("completion", Str0, Str0, FALSE, 0, TRUE,
                                 "nil", [resp |-> "nil", err |-> err],
                                 IF err = NilError THEN "ok"
                                 ELSE "writeFailure")
  /\ now' = now + NetDelay
  /\ pc' = "responded"
  /\ UNCHANGED <<call, hOperation, hID, optWait, ctxDeadline, startTime, wait,
                 request, nreq, getResultTimeout, result, optHeader,
                 httpHeader, bodyCloses, completion, cancels>>
  /\ UNCHANGED resultVars

InitCompletion ==
  /\ pc = "idle"
  /\ call = "Completion"
  /\ hOperation = <<"a">>
  /\ hID = <<"a">>
  /\ optWait = 0
  /\ ctxDeadline = NoDeadline
  /\ now = 0
  /\ startTime = 0
  /\ wait = 0
  /\ request = NoRequest
  /\ nreq = 0
  /\ getResultTimeout = Minute
  /\ srv = NotServed
  /\ response = NoResponse
  /\ result = NotReturned
  /\ optHeader = NoHeader
  /\ httpHeader = NoHeader
  /\ bodyCloses = 0
  /\ completion \in Completions \cup {NoCompletion}
  /\ delivered = NotDelivered
  /\ cancels = NoCancels
  /\ handleT = "*LazyValue"
  /\ lazy = NoLazyValue

NextCompletion ==
  \/ NewCompletionHTTPRequest
  \/ ForeignCompletionRequest
  \/ ServeCompletion

SpecCompletion == InitCompletion /\ [][NextCompletion]_vars

\* ------------------------------------------------------------------------
\* Concurrent Cancel requests: OperationHandle.Cancel and
\* httpHandler.cancelOperation
\* ------------------------------------------------------------------------

\* Errors a Handler may return from CancelOperation.
CancelHandlerErrors ==
  {NilError, OtherError("secret"), OtherError("another secret"),
   HandlerError(StatusNotFound, Boom)}

\* Answers to a Cancel request of a peer that is not this dispatcher.
ForeignCancelResponses ==
  {Response(StatusOK, "", "", EmptyBody),
   Response(StatusAccepted, "", contentTypeJSON, GarbageBody),
   Response(StatusInternalServerError, "", contentTypeJSON,
            JSONFailureBody(Boom)),
   PanicResponse}

\* OperationHandle.Cancel up to the call of HTTPCaller.
CancelSend(i) ==
  /\ call = "Cancel"
  /\ cancels[i].pc = "idle"
  /\ request' = [method |-> "POST",
                 url |-> ClientURL("Cancel", hOperation, hID),
                 query |-> EmptyQuery]
  /\ httpHeader' = ClientHeader("Cancel", ctxDeadline, optHeader)
  /\ cancels' = [cancels EXCEPT ![i].pc = "inflight"]
  /\ nreq' = nreq + 1
  /\ UNCHANGED <<pc, call, hOperation, hID, optWait, ctxDeadline, now,
                 startTime, wait, getResultTimeout, srv, response, result,
                 optHeader, bodyCloses>>
  /\ UNCHANGED completionVars
  /\ UNCHANGED resultVars

\* cancelOperation up to the call of Handler.CancelOperation: the router
\* selects the endpoint and the path is decoded; the Handler is entered
\* unless the path does not decode.
CancelInvoke(i) ==
  /\ call = "Cancel"
  /\ cancels[i].pc = "inflight"
  /\ LET d == Dispatch(request.method, request.url)
     IN  IF d.endpoint # "cancelOperation"
         THEN cancels' = [cancels EXCEPT
                ![i].pc = "responded",
                ![i].response = Response(StatusNotFound, "", "", EmptyBody)]
         ELSE IF d.err
         THEN cancels' = [cancels EXCEPT
                ![i].pc = "responded",
                ![i].response =
                  writeFailure(newBadRequestError("failed to parse URL path"))]
         ELSE cancels' = [cancels EXCEPT
                ![i].pc = "inHandler",
                ![i].calls = @ + 1,
                ![i].overlapped =
                  \E j \in CancelRequests \ {i} : cancels[j].pc = "inHandler"]
  /\ UNCHANGED <<pc, call, hOperation, hID, optWait, ctxDeadline, now,
                 startTime, wait, request, nreq, getResultTimeout, srv,
                 response, result, optHeader, httpHeader, bodyCloses>>
  /\ UNCHANGED completionVars
  /\ UNCHANGED resultVars

\* cancelResponse answering 200.
cancelResponseOK(err) ==
  IF err # NilError THEN writeFailure(err)
  ELSE Response(StatusOK, "", "", EmptyBody)

\* cancelOperation after the Handler returned.
cancelResponse(err) ==
  IF err # NilError THEN writeFailure(err)
  ELSE Response(StatusAccepted, "", "", EmptyBody)

\* Handler.CancelOperation returns and cancelOperation writes the response.
CancelRespond(i) ==
  /\ call = "Cancel"
  /\ cancels[i].pc = "inHandler"
  /\ \E err \in CancelHandlerErrors :
       cancels' = [cancels EXCEPT ![i].pc = "responded",
                                  ![i].ret = err,
                                  ![i].response = cancelResponse(err)]
  /\ UNCHANGED <<pc, call, hOperation, hID, optWait, ctxDeadline, now,
                 startTime, wait, request, nreq, getResultTimeout, srv,
                 response, result, optHeader, httpHeader, bodyCloses>>
  /\ UNCHANGED completionVars
  /\ UNCHANGED resultVars

\* Some other peer answers the Cancel request, or the exchange fails.
ForeignCancelRespond(i) ==
  /\ call = "Cancel"
  /\ cancels[i].pc = "inflight"
  /\ \E resp \in ForeignCancelResponses :
       cancels' = [cancels EXCEPT ![i].pc = "responded",
                                  ![i].response = resp]
  /\ UNCHANGED <<pc, call, hOperation, hID, optWait, ctxDeadline, now,
                 startTime, wait, request, nreq, getResultTimeout, srv,
                 response, result, optHeader, httpHeader, bodyCloses>>
  /\ UNCHANGED completionVars
  /\ UNCHANGED resultVars

\* The error OperationHandle.Cancel returns for a response.
cancelResult(resp) ==
  IF resp.aborted THEN TransportError
  ELSE IF resp.status # StatusAccepted
  THEN bestEffortHandlerErrorFromResponse(resp)
  ELSE Ok

\* OperationHandle.Cancel after HTTPCaller returned.
CancelReceive(i) ==
  /\ call = "Cancel"
  /\ cancels[i].pc = "responded"
  /\ cancels' = [cancels EXCEPT
                   ![i].pc = "done",
                   ![i].result = cancelResult(cancels[i].response)]
  /\ UNCHANGED <<pc, call, hOperation, hID, optWait, ctxDeadline, now,
                 startTime, wait, request, nreq, getResultTimeout, srv,
                 response, result, optHeader, httpHeader, bodyCloses>>
  /\ UNCHANGED completionVars
  /\ UNCHANGED resultVars

InitCancel ==
  /\ pc = "idle"
  /\ call = "Cancel"
  /\ \E h \in HandleIdentities : hOperation = h[1] /\ hID = h[2]
  /\ optWait = 0
  /\ ctxDeadline = NoDeadline
  /\ now = 0
  /\ startTime = 0
  /\ wait = 0
  /\ request = NoRequest
  /\ nreq = 0
  /\ getResultTimeout = Minute
  /\ srv = NotServed
  /\ response = NoResponse
  /\ result = NotReturned
  /\ optHeader = NoHeader
  /\ httpHeader = NoHeader
  /\ bodyCloses = 0
  /\ completion = NoCompletion
  /\ delivered = NotDelivered
  /\ cancels = NoCancels
  /\ handleT = "*LazyValue"
  /\ lazy = NoLazyValue

NextCancel ==
  \E i \in CancelRequests :
    \/ CancelSend(i)
    \/ CancelInvoke(i)
    \/ CancelRespond(i)
    \/ ForeignCancelRespond(i)
    \/ CancelReceive(i)

SpecCancel == InitCancel /\ [][NextCancel]_vars

\* ------------------------------------------------------------------------
\* Server: httpHandler.startOperation and httpHandler.getOperationInfo
\* ------------------------------------------------------------------------

\* The OperationResponse values a Handler may return from StartOperation;
\* the Header of a sync response is its Content-Type.
OperationResponseSync(contentType) ==
  [kind |-> "sync", contentType |-> contentType, OperationID |-> ""]
OperationResponseAsync(id) ==
  [kind |-> "async", contentType |-> "", OperationID |-> id]
NilResponse == [kind |-> "nil", contentType |-> "", OperationID |-> ""]

\* The JSON encoding of an OperationInfo.
OperationInfoBody(id, state) ==
  [kind |-> "info", failure |-> NoFailure, id |-> id, state |-> state]

\* A response whose body could not be written to the connection.
WriteFailed(resp) == [resp EXCEPT !.body = EmptyBody, !.aborted = TRUE]

\* applyToHTTPResponse answering an async start with 200.
applyToHTTPResponseAsyncOK(r, writeFails) ==
  IF r.kind = "nil" THEN PanicResponse
  ELSE LET resp == IF r.kind = "sync"
                   THEN Response(StatusOK, "", r.contentType, ResultBody)
                   ELSE Response(StatusOK, "", contentTypeJSON,
                                 OperationInfoBody(r.OperationID,
                                                   OperationStateRunning))
       IN  IF writeFails THEN WriteFailed(resp) ELSE resp

\* OperationResponseSync.applyToHTTPResponse and
\* OperationResponseAsync.applyToHTTPResponse; the call on a nil response
\* panics.
applyToHTTPResponse(r, writeFails) ==
  IF r.kind = "nil" THEN PanicResponse
  ELSE LET resp == IF r.kind = "sync"
                   THEN Response(StatusOK, "", r.contentType, ResultBody)
                   ELSE Response(StatusCreated, "", contentTypeJSON,
                                 OperationInfoBody(r.OperationID,
                                                   OperationStateRunning))
       IN  IF writeFails THEN WriteFailed(resp) ELSE resp

\* The Close calls applyToHTTPResponse makes on the body of the response.
applyBodyCloses(r) == IF r.kind = "sync" THEN 1 ELSE 0

\* Errors a Handler may return from StartOperation and GetOperationInfo.
StartHandlerErrors ==
  {OtherError("secret"), OtherError("another secret"),
   UnsuccessfulOperationError(OperationStateFailed, Boom),
   HandlerError(StatusBadRequest, Boom)}

\* (response, error) pairs a Handler may return from StartOperation.
StartReturns ==
  {[resp |-> r, err |-> e] :
     r \in {OperationResponseSync(contentTypeJSON),
            OperationResponseSync("text/plain"),
            OperationResponseAsync("id1"), OperationResponseAsync("id2"),
            NilResponse},
     e \in {NilError} \cup StartHandlerErrors}

\* The URL of a start request: <base>/<service>/<operation>.
StartURL(operation) ==
  setPath(EscapedPath(JoinPath(setPath(ServiceBasePath),
                               <<PathEscape(Service),
                                 PathEscape(operation)>>)))

\* httpHandler.startOperation
ServeStart ==
  /\ pc = "inflight"
  /\ call = "Start"
  /\ LET d == Dispatch(request.method, request.url)
     IN  IF d.endpoint # "startOperation"
         THEN /\ response' = Response(StatusNotFound, "", "", EmptyBody)
              /\ srv' = Served(d.endpoint, Str0, Str0, FALSE, 0, FALSE, "nil",
                               NoReturn, "notFound")
              /\ bodyCloses' = 0
         ELSE IF d.err
         THEN /\ response' = writeFailure(
                               newBadRequestError("failed to parse URL path"))
              /\ srv' = Served(d.endpoint, Str0, Str0, FALSE, 0, FALSE, "nil",
                               NoReturn, "badRequest")
              /\ bodyCloses' = 0
         ELSE \E ret \in StartReturns, writeFails \in BOOLEAN :
                IF ret.err # NilError
                THEN /\ response' = writeFailure(ret.err)
                     /\ srv' = Served(d.endpoint, d.operation, Str0, FALSE, 0,
                                      TRUE, "nil", ret, "writeFailure")
                     /\ bodyCloses' = 0
                ELSE /\ response' = applyToHTTPResponse(ret.resp, writeFails)
                     /\ srv' = Served(d.endpoint, d.operation, Str0, FALSE, 0,
                                      TRUE, "nil", ret, "apply")
                     /\ bodyCloses' = applyBodyCloses(ret.resp)
  /\ now' = now + NetDelay
  /\ pc' = "responded"
  /\ UNCHANGED <<call, hOperation, hID, optWait, ctxDeadline, startTime, wait,
                 request, nreq, getResultTimeout, result, optHeader,
                 httpHeader, cancels>>
  /\ UNCHANGED completionVars
  /\ UNCHANGED resultVars

\* httpHandler.getOperationInfo: the Handler's error is rendered through
\* writeFailure, and so is an error of the Marshaler.
ServeGetInfo ==
  /\ pc = "inflight"
  /\ call = "GetInfo"
  /\ LET d == Dispatch(request.method, request.url)
     IN  IF d.endpoint # "getOperationInfo"
         THEN /\ response' = Response(StatusNotFound, "", "", EmptyBody)
              /\ srv' = Served(d.endpoint, Str0, Str0, FALSE, 0, FALSE, "nil",
                               NoReturn, "notFound")
         ELSE IF d.err
         THEN /\ response' = writeFailure(
                               newBadRequestError("failed to parse URL path"))
              /\ srv' = Served(d.endpoint, Str0, Str0, FALSE, 0, FALSE, "nil",
                               NoReturn, "badRequest")
         ELSE \E e \in {NilError} \cup StartHandlerErrors,
                 marshalFails \in BOOLEAN :
                /\ response' =
                     IF e # NilError THEN writeFailure(e)
                     ELSE IF marshalFails
                     THEN writeFailure(
                            OtherError("failed to marshal operation info"))
                     ELSE Response(StatusOK, "", contentTypeJSON,
                                   OperationInfoBody("id1",
                                                     OperationStateRunning))
                /\ srv' = Served(d.endpoint, d.operation, d.operationID,
                                 FALSE, 0, TRUE, "nil",
                                 [resp |-> "info", err |-> e],
                                 IF e # NilError \/ marshalFails
                                 THEN "writeFailure" ELSE "apply")
  /\ now' = now + NetDelay
  /\ pc' = "responded"
  /\ UNCHANGED <<call, hOperation, hID, optWait, ctxDeadline, startTime, wait,
                 request, nreq, getResultTimeout, result, optHeader,
                 httpHeader, bodyCloses, cancels>>
  /\ UNCHANGED completionVars
  /\ UNCHANGED resultVars

\* ------------------------------------------------------------------------
\* The server specification: a request arrives at one endpoint of the
\* dispatcher or at the completion handler (concurrent ones for Cancel) and
\* is answered
\* ------------------------------------------------------------------------

ServerCalls == {"Start", "GetInfo", "GetResult", "Cancel", "Completion"}

\* A start request of a client arrives at the dispatcher.
StartRequest ==
  /\ pc = "idle"
  /\ call = "Start"
  /\ request' = [method |-> "POST", url |-> StartURL(hOperation),
                 query |-> EmptyQuery]
  /\ httpHeader' = GetResultHeader(ctxDeadline, optHeader)
  /\ nreq' = nreq + 1
  /\ pc' = "inflight"
  /\ UNCHANGED <<call, hOperation, hID, optWait, ctxDeadline, now, startTime,
                 wait, getResultTimeout, srv, response, result, optHeader,
                 bodyCloses, cancels>>
  /\ UNCHANGED completionVars
  /\ UNCHANGED resultVars

InitServer ==
  /\ pc = "idle"
  /\ call \in ServerCalls
  /\ \E h \in HandleIdentities : hOperation = h[1] /\ hID = h[2]
  /\ optWait \in IF call = "GetResult" THEN {0, 2500 * Millisecond} ELSE {0}
  /\ ctxDeadline = NoDeadline
  /\ now = 0
  /\ startTime = 0
  /\ wait = 0
  /\ request = NoRequest
  /\ nreq = 0
  /\ getResultTimeout = NewHTTPHandlerTimeout(2 * Second)
  /\ srv = NotServed
  /\ response = NoResponse
  /\ result = NotReturned
  /\ optHeader = NoHeader
  /\ httpHeader = NoHeader
  /\ bodyCloses = 0
  /\ completion = NoCompletion
  /\ delivered = NotDelivered
  /\ cancels = NoCancels
  /\ handleT = "*LazyValue"
  /\ lazy = NoLazyValue

NextServer ==
  \/ StartRequest
  \/ ServeStart
  \/ SendRequest
  \/ ServeGetInfo
  \/ GetResultBegin
  \/ PrepareAndSend
  \/ ServeGetResult
  \/ ForeignCompletionRequest
  \/ ServeCompletion
  \/ \E i \in CancelRequests :
       CancelSend(i) \/ CancelInvoke(i) \/ CancelRespond(i)

SpecServer == InitServer /\ [][NextServer]_vars

\* ------------------------------------------------------------------------
\* Claims about the URL round trip (SpecURL)
\* ------------------------------------------------------------------------

\* The endpoint each client call addresses.
CallEndpoint(c) ==
  CASE c = "GetInfo" -> "getOperationInfo"
    [] c = "GetResult" -> "getOperationResult"
    [] c = "Cancel" -> "cancelOperation"

\* C7: for every operation name and id, the URL the client builds for
\* GetInfo, GetResult and Cancel is routed to the matching endpoint and is
\* decoded into exactly the original operation name and operation id.
C7_RoundTrip ==
  pc = "routed" =>
    /\ srv.endpoint = CallEndpoint(call)
    /\ srv.called
    /\ srv.operation = hOperation
    /\ srv.operationID = hID

\* ------------------------------------------------------------------------
\* Claims about GetResult and the dispatcher (Spec)
\* ------------------------------------------------------------------------

\* The Handler's GetOperationResult was called for the request in flight and
\* its return has been rendered.
HandlerReturned == pc \in {"responded", "done"} /\ srv.served /\ srv.called

Is408 == ~response.aborted /\ response.status = StatusRequestTimeout

\* C1: the getOperationResult endpoint responds 408 if and only if the
\* request carried a wait that parsed to a duration > 0, the context handed
\* to the Handler is done when the Handler returns, and the Handler returned
\* an error.
C1_TimeoutIff ==
  HandlerReturned =>
    (Is408 <=> (/\ srv.wait > 0
                /\ srv.ctxErr # "nil"
                /\ srv.ret.err # NilError))

C3_SentinelNeverReturned ==
  pc = "done" =>
    /\ result # errOperationWaitTimeout
    /\ (optWait > 0 /\ Is408 => result = ErrOperationStillRunning)

\* C4: when wait is <= 0 at the top of an iteration, the request sent in
\* that iteration carries no wait query parameter.
C4_NoWaitParameter ==
  [][(pc = "top" /\ wait <= 0) => ~request'.query.has]_vars

\* A later iteration sent the reused request after an earlier one had set a
\* wait parameter on it.
C4_ResetReached ==
  /\ pc = "inflight"
  /\ nreq >= 2
  /\ optWait > 0
  /\ wait <= 0
  /\ ~request.query.has

\* C5: every outbound request carrying a wait parameter, under a context
\* with a deadline, carries a wait that is at most (deadline - now) + 5s and
\* at most options.Wait.
C5_WaitBounded ==
  (pc = "inflight" /\ request.query.has /\ ctxDeadline.set) =>
    /\ ParseDuration(request.query)
         <= (ctxDeadline.at - now) + getResultContextPadding
    /\ ParseDuration(request.query) <= optWait

\* C6: with options.Wait = 0 GetResult issues exactly one request, without a
\* wait parameter, and returns the interpretation of that single response;
\* "operation still running" yields ErrOperationStillRunning.
C6_SingleRequest ==
  optWait = 0 =>
    /\ nreq <= 1
    /\ (nreq = 1 => ~request.query.has)
    /\ (pc = "done" =>
          /\ nreq = 1
          /\ result = sendGetOperationRequest(response)
          /\ (~response.aborted /\ response.status = statusOperationRunning
                => result = ErrOperationStillRunning))

C6_StillRunningReached ==
  /\ optWait = 0
  /\ pc = "done"
  /\ nreq = 1
  /\ response.status = statusOperationRunning
  /\ result = ErrOperationStillRunning

\* C8: whatever error the Handler returns from GetOperationResult, the
\* client obtains the same channel: a HandlerError with the same status
\* code, an UnsuccessfulOperationError (of state failed or canceled) with
\* the same state and failure, ErrOperationStillRunning.
C8_ChannelsSeparable ==
  (HandlerReturned /\ srv.ret.err # NilError) =>
    LET e == srv.ret.err
        out == sendGetOperationRequest(response)
    IN  /\ (e.kind = "handler" =>
              out.kind = "handler" /\ out.code = e.code)
        /\ (e.kind = "unsuccessful"
              /\ e.state \in {OperationStateFailed, OperationStateCanceled} =>
              out = UnsuccessfulOperationError(e.state, e.failure))
        /\ (e.kind = "stillRunning" => out = ErrOperationStillRunning)

\* The response in flight was written by writeFailure for the Handler's
\* error.
FailureWritten == HandlerReturned /\ srv.branch = "writeFailure"

\* C9 as claimed: writeFailure renders an UnsuccessfulOperationError as the
\* operation-failed status with a failed/canceled state header and a JSON
\* Failure body, a HandlerError as its status code with a JSON failure body
\* and content type, any other error as 500.
C9_TaggedDispatch ==
  FailureWritten =>
    LET e == srv.ret.err
    IN  /\ ~response.aborted
        /\ (e.kind = "unsuccessful" =>
              /\ response.status = statusOperationFailed
              /\ response.opState \in {OperationStateFailed,
                                       OperationStateCanceled}
              /\ response.contentType = contentTypeJSON
              /\ response.body = JSONFailureBody(e.failure))
        /\ (e.kind = "handler" =>
              /\ response.status = e.code
              /\ response.contentType = contentTypeJSON
              /\ response.body = JSONFailureBody(e.failure))
        /\ (e.kind \notin {"unsuccessful", "handler"} =>
              response.status = StatusInternalServerError)

\* C9 amended: the framing holds for an UnsuccessfulOperationError whose
\* state is failed or canceled (any other state is a bare 500) and for a
\* HandlerError whose status code net/http accepts (otherwise no response is
\* written); a HandlerError without a Failure has an empty body and no
\* content type; a Failure that cannot be marshaled gives 500 with an empty
\* body; any other error is 500 with the internal-server-error Failure.
C9_TaggedDispatchAmended ==
  FailureWritten =>
    LET e == srv.ret.err
        validState == e.state \in {OperationStateFailed, OperationStateCanceled}
        validCode == e.code >= 100 /\ e.code <= 999
        bare500(st) == response = Response(StatusInternalServerError, st, "",
                                           EmptyBody)
    IN  /\ (e.kind = "unsuccessful" /\ ~validState => bare500(""))
        /\ (e.kind = "unsuccessful" /\ validState /\ ~e.failure.marshals =>
              bare500(e.state))
        /\ (e.kind = "unsuccessful" /\ validState /\ e.failure.marshals =>
              response = Response(statusOperationFailed, e.state,
                                  contentTypeJSON, JSONFailureBody(e.failure)))
        /\ (e.kind = "handler" /\ e.failure # NoFailure
              /\ ~e.failure.marshals => bare500(""))
        /\ (e.kind = "handler" /\ e.failure.marshals /\ ~validCode =>
              response.aborted)
        /\ (e.kind = "handler" /\ e.failure # NoFailure
              /\ e.failure.marshals /\ validCode =>
              response = Response(e.code, "", contentTypeJSON,
                                  JSONFailureBody(e.failure)))
        /\ (e.kind = "handler" /\ e.failure = NoFailure /\ validCode =>
              response = Response(e.code, "", "", EmptyBody))
        /\ (e.kind \notin {"unsuccessful", "handler"} =>
              response = Response(StatusInternalServerError, "",
                                  contentTypeJSON,
                                  JSONFailureBody(InternalFailure)))

\* writeFailure rendered a canceled operation.
C9_CanceledRendered ==
  /\ FailureWritten
  /\ srv.ret.err = UnsuccessfulOperationError(OperationStateCanceled, Boom)
  /\ response.status = statusOperationFailed
  /\ response.opState = OperationStateCanceled

\* C10: a HandlerError whose StatusCode was left at its zero value is
\* rendered as HTTP 500.
C10_DefaultStatus ==
  (FailureWritten /\ srv.ret.err.kind = "handler" /\ srv.ret.err.code = 0) =>
    ~response.aborted /\ response.status = StatusInternalServerError

\* ------------------------------------------------------------------------
\* Claims about the request headers of the client calls (SpecURL)
\* ------------------------------------------------------------------------

C12_StatusMapping ==
  (pc = "done" /\ ~response.aborted) =>
    LET validState == response.opState \in {OperationStateFailed,
                                            OperationStateCanceled}
        decodes == /\ response.contentType = contentTypeJSON
                   /\ response.body.kind = "json"
        st == response.status
    IN  /\ (st = StatusOK => result = Ok)
        /\ (st = StatusRequestTimeout => result = errOperationWaitTimeout)
        /\ (st = statusOperationRunning => result = ErrOperationStillRunning)
        /\ (st = statusOperationFailed /\ validState /\ decodes =>
              result = UnsuccessfulOperationError(response.opState,
                                                  response.body.failure))
        /\ (st = statusOperationFailed /\ ~(validState /\ decodes) =>
              result.kind = "plain")
        /\ (st \notin {StatusOK, StatusRequestTimeout, statusOperationRunning,
                        statusOperationFailed} =>
              result.kind = "handler" /\ result.code = st)

\* GetResult returned for an operation-failed response whose state header
\* is not an unsuccessful state although its body is a Failure.
C12_FailedWithoutState ==
  /\ pc = "done"
  /\ response.status = statusOperationFailed
  /\ response.opState = OperationStateRunning
  /\ response.body = JSONFailureBody(Boom)
  /\ response.contentType = contentTypeJSON
  /\ result.kind = "plain"

CompletionServed == pc = "responded" /\ call = "Completion" /\ srv.served

\* The checks of a completion request the claim C15 names: the operation
\* state, the link headers, and for failed/canceled the content type and
\* the body.
C15_NamedChecksFail ==
  LET state == HeaderGet(httpHeader, headerOperationState)
  IN  \/ state \notin {OperationStateSucceeded, OperationStateFailed,
                        OperationStateCanceled}
      \/ HeaderGet(httpHeader, headerLink) \notin {"", "<l1>"}
      \/ /\ state \in {OperationStateFailed, OperationStateCanceled}
         /\ \/ HeaderGet(httpHeader, headerContentType) # contentTypeJSON
            \/ request.body.kind \notin {"json", "null"}

\* The check of the start time header the handler makes as well.
C15_StartTimeFails ==
  HeaderGet(httpHeader, headerOperationStartTime) \notin {"", HTTPDate}

\* C15 as claimed: the completion endpoint answers 400 without calling
\* CompleteOperation when the state header is missing or invalid, the link
\* headers do not decode, or a failed/canceled completion has no JSON
\* content type or no Failure body; every other request reaches
\* CompleteOperation exactly once.
C15_RejectsOrInvokesOnce ==
  CompletionServed =>
    IF C15_NamedChecksFail
    THEN response.status = StatusBadRequest /\ delivered.calls = 0
    ELSE delivered.calls = 1

\* C15 amended: a start time header that is not an HTTP date is rejected
\* with 400 as well; every request that passes all the checks reaches
\* CompleteOperation exactly once.
C15_RejectsOrInvokesOnceAmended ==
  CompletionServed =>
    IF C15_NamedChecksFail \/ C15_StartTimeFails
    THEN response.status = StatusBadRequest /\ delivered.calls = 0
    ELSE delivered.calls = 1

\* A succeeded completion with a content type that is not JSON reached the
\* CompletionHandler.
C15_SucceededAnyContentType ==
  /\ CompletionServed
  /\ HeaderGet(httpHeader, headerOperationState) = OperationStateSucceeded
  /\ HeaderGet(httpHeader, headerContentType) = "text/plain"
  /\ delivered.calls = 1

\* C16: every successful completion, and every unsuccessful completion
\* whose state is failed or canceled, that NewCompletionHTTPRequest turned
\* into a request is accepted by the completion handler, and the
\* CompletionRequest delivered has the completion's state, operation id
\* and, for an unsuccessful completion, Failure.
C16_CompletionRoundTrip ==
  (/\ CompletionServed
   /\ completion # NoCompletion
   /\ \/ completion.kind = "successful"
      \/ completion.State \in {OperationStateFailed, OperationStateCanceled})
  => /\ srv.branch # "badRequest"
     /\ delivered.calls = 1
     /\ delivered.req.State = completion.State
     /\ delivered.req.OperationID = completion.OperationID
     /\ (completion.kind = "unsuccessful" =>
           delivered.req.Failure = completion.Failure)

\* C17: in a request built by NewCompletionHTTPRequest the operation-state
\* header is the completion's state, the operation-id header is the
\* completion's OperationID when that is set, and User-Agent is the SDK's
\* user agent, whatever the completion's Header holds.
C17_ReservedHeadersNotShadowed ==
  (pc = "inflight" /\ call = "Completion" /\ completion # NoCompletion) =>
    /\ HeaderGet(httpHeader, headerOperationState) = completion.State
    /\ (completion.OperationID # "" =>
          HeaderGet(httpHeader, HeaderOperationID) = completion.OperationID)
    /\ HeaderGet(httpHeader, headerUserAgent) = userAgent

\* ------------------------------------------------------------------------
\* Claims about concurrent Cancel requests (SpecCancel)
\* ------------------------------------------------------------------------

\* C18: every Cancel request the dispatcher answered after entering the
\* Handler caused exactly one invocation of CancelOperation, however the
\* requests interleave, and was answered 202 when the Handler returned no
\* error; the client's Cancel returns success exactly when the response has
\* status 202.
C18_ConcurrentCancels ==
  \A i \in CancelRequests :
    /\ cancels[i].calls <= 1
    /\ (cancels[i].pc = "inHandler" => cancels[i].calls = 1)
    /\ ((cancels[i].pc \in {"responded", "done"} /\ cancels[i].calls = 1
           /\ cancels[i].ret = NilError) =>
          cancels[i].response = Response(StatusAccepted, "", "", EmptyBody))
    /\ (cancels[i].pc = "done" =>
          (cancels[i].result = Ok <=>
             (~cancels[i].response.aborted
              /\ cancels[i].response.status = StatusAccepted)))

\* Two Cancel requests were inside the Handler at the same time, each was
\* answered 202 and each client call returned success.
C18_BothAccepted ==
  /\ \A i \in {1, 2} :
       /\ cancels[i].pc = "done"
       /\ cancels[i].calls = 1
       /\ cancels[i].ret = NilError
       /\ cancels[i].result = Ok
  /\ \E i \in {1, 2} : cancels[i].overlapped

\* ------------------------------------------------------------------------
\* Errors of a Handler that are neither HandlerError nor
\* UnsuccessfulOperationError
\* ------------------------------------------------------------------------

\* The one response writeFailure gives for an unrecognised error.
InternalErrorResponse ==
  Response(StatusInternalServerError, "", contentTypeJSON,
           JSONFailureBody(InternalFailure))

\* A Handler or CompletionHandler returned an unrecognised error to the
\* request answered in `response`.
ReturnedOther ==
  pc = "responded" /\ srv.called /\ srv.ret.err.kind = "other"

StartReturned ==
  /\ call = "Start"
  /\ pc = "responded"
  /\ srv.called
  /\ srv.ret.err = NilError

\* C19: an OperationResponseSync returned by StartOperation is rendered as
\* status 200 with the headers of the response and its body; an
\* OperationResponseAsync as status 201 with content type JSON and the JSON
\* encoding of OperationInfo{id, running} as body, the id being the one of
\* the response and the state always running.  (A body that cannot be
\* written leaves status and headers as stated.)
C19_StartRendering ==
  StartReturned =>
    /\ srv.ret.resp.kind = "sync" =>
         /\ response.status = StatusOK
         /\ response.contentType = srv.ret.resp.contentType
         /\ response.opState = ""
         /\ ~response.aborted => response.body = ResultBody
    /\ srv.ret.resp.kind = "async" =>
         /\ response.status = StatusCreated
         /\ response.contentType = contentTypeJSON
         /\ response.opState = ""
         /\ ~response.aborted =>
              response.body = OperationInfoBody(srv.ret.resp.OperationID,
                                                OperationStateRunning)

\* An asynchronous start was answered with 201 and the id the Handler gave.
C19_AsyncStarted ==
  /\ StartReturned
  /\ srv.ret.resp = OperationResponseAsync("id2")
  /\ response = Response(StatusCreated, "", contentTypeJSON,
                         OperationInfoBody("id2", OperationStateRunning))

\* ------------------------------------------------------------------------
\* Closing the body of an OperationResponseSync
\* ------------------------------------------------------------------------

\* The Handler returned an OperationResponseSync (with or without an error)
\* to the request answered in `response`.
SyncReturned ==
  /\ pc = "responded"
  /\ srv.called
  /\ \/ call = "GetResult" /\ srv.ret.resp = "sync"
     \/ call = "Start" /\ srv.ret.resp.kind = "sync"

\* C20: whenever a Handler returned an OperationResponseSync with a closable
\* body from StartOperation or GetOperationResult, the dispatcher has closed
\* that body exactly once when the request is answered, also when the body
\* could not be written and when the response came together with an error.
C20_SyncBodyClosedOnce ==
  SyncReturned => bodyCloses = 1

\* ------------------------------------------------------------------------
\* Result routing by T
\* ------------------------------------------------------------------------

\* GetResult has returned on a 200 response.
ReturnedOn200 ==
  /\ call = "GetResult"
  /\ pc = "done"
  /\ sendGetOperationRequest(response) = Ok

\* C21: when GetResult returns on a 200 response it has built one LazyValue;
\* with T = *LazyValue it returns that LazyValue and has neither read nor
\* closed the body, with any other T it has called Consume exactly once and
\* returns the decoded value and the error of Consume.  When it returns on
\* any other response, and while it retries, no LazyValue was built.
C21_ResultRouting ==
  IF ReturnedOn200
  THEN /\ lazy.constructed = 1
       /\ handleT = "*LazyValue" =>
            /\ lazy.value = "lazy"
            /\ lazy.consumes = 0
            /\ lazy.reads = 0
            /\ lazy.closes = 0
            /\ result = Ok
       /\ handleT # "*LazyValue" =>
            /\ lazy.consumes = 1
            /\ lazy.value = (IF result = Ok THEN "decoded" ELSE "zero")
            /\ result \in ConsumeErrors
  ELSE lazy = NoLazyValue

\* GetResult on a handle of *LazyValue returned the untouched LazyValue.
C21_LazyReturnedUnread ==
  /\ pc = "done"
  /\ handleT = "*LazyValue"
  /\ response.status = StatusOK
  /\ lazy = LazyValue(1, 0, 0, 0, "lazy")

\* ------------------------------------------------------------------------
\* The deadline of the context handed to Handler.GetOperationResult
\* ------------------------------------------------------------------------

\* The step in which getOperationResult calls the Handler and answers.
HandlerServesResult ==
  /\ call = "GetResult"
  /\ pc = "inflight"
  /\ pc' = "responded"
  /\ srv'.called

\* The time the Handler took in that step.
HandlerTook == (now' - now) - NetDelay

\* C22 as stated: for every GetOperationResult request the context of the
\* Handler has the deadline GetResultTimeout after the dispatch, so it has
\* expired exactly when the Handler took at least GetResultTimeout,
\* whatever the wait parameter of the request.
C22_DeadlineForEveryRequest ==
  [][HandlerServesResult =>
       (srv'.ctxErr = "DeadlineExceeded" <=> HandlerTook >= getResultTimeout)
    ]_vars

\* C22 amended: the deadline is set for every request that carries a wait
\* parameter, whatever its value; the context of a request without the
\* parameter has no deadline of the dispatcher.
C22_DeadlineForRequestsWithWait ==
  [][HandlerServesResult =>
       (srv'.ctxErr = "DeadlineExceeded"
          <=> srv'.hasWait /\ HandlerTook >= getResultTimeout)
    ]_vars

\* A request whose wait exceeds GetResultTimeout was served by a Handler
\* whose context expired.
C22_ExpiredBeforeWait ==
  /\ call = "GetResult"
  /\ pc = "responded"
  /\ srv.called
  /\ srv.hasWait
  /\ srv.wait > getResultTimeout
  /\ srv.ctxErr = "DeadlineExceeded"

\* ------------------------------------------------------------------------
\* The sign of the wait parameter
\* ------------------------------------------------------------------------

\* C23: every outbound GetResult request that carries a wait parameter
\* carries a strictly positive number of milliseconds.
C23_WaitPositive ==
  (call = "GetResult" /\ pc = "inflight" /\ request.query.has) =>
    request.query.ms >= 1

\* ------------------------------------------------------------------------
\* Termination of GetResult
\* ------------------------------------------------------------------------

\* Every request after the second was preceded by a round trip within the
\* remaining wait, and a round trip takes NetDelay at least.
RequestsBounded == nreq >= 3 => (nreq - 2) * NetDelay < optWait

\* C24: when every HTTP call returns and every round trip takes a positive
\* time, every call of GetResult returns, and it has made a number of
\* requests bounded by options.Wait over the shortest round trip, whatever
\* the responses are.
C24_GetResultReturns ==
  []RequestsBounded /\ ((pc # "idle") ~> (pc = "done"))

\* GetResult returned after a server answered 408 to three requests.
C24_ReturnedAfterTimeouts ==
  /\ pc = "done"
  /\ nreq >= 3
  /\ response.status = StatusRequestTimeout
  /\ result = errOperationWaitTimeout

\* ------------------------------------------------------------------------
\* The waits of successive requests
\* ------------------------------------------------------------------------

\* The head of a later loop iteration sends a request with a wait parameter;
\* the reused request still carries the query of the request before it.
RetrySendsWait ==
  /\ call = "GetResult"
  /\ pc = "top"
  /\ pc' = "inflight"
  /\ nreq >= 1
  /\ request'.query.has

\* C25: the wait a retry sends is at most the wait the request before it
\* sent, and at most options.Wait minus the time elapsed since the call
\* started.
C25_WaitsNonIncreasing ==
  [][RetrySendsWait =>
       /\ request.query.has
       /\ request'.query.ms <= request.query.ms
       /\ ParseDuration(request'.query) <= optWait - (now - startTime)
    ]_vars

\* A retry is in flight with a wait smaller than the one of the first
\* request.
C25_RetryWithSmallerWait ==
  /\ call = "GetResult"
  /\ pc = "inflight"
  /\ nreq >= 2
  /\ request.query.has
  /\ request.query.ms > 0
  /\ request.query.ms < Milliseconds(optWait)

\* ------------------------------------------------------------------------
\* The operation-failed status and the operation-state header
\* ------------------------------------------------------------------------

\* C26: every response the dispatcher writes with the operation-failed
\* status carries the operation-state header failed or canceled, whatever
\* the Handler returned, and an UnsuccessfulOperationError with any other
\* state is written as a bare 500.
C26_FailedStatusHasState ==
  (call = "GetResult" /\ pc = "responded" /\ srv.served) =>
    /\ response.status = statusOperationFailed =>
         response.opState \in {OperationStateFailed, OperationStateCanceled}
    /\ (/\ srv.branch = "writeFailure"
        /\ srv.ret.err.kind = "unsuccessful"
        /\ srv.ret.err.state \notin {OperationStateFailed,
                                      OperationStateCanceled}) =>
         response = Response(StatusInternalServerError, "", "", EmptyBody)

\* ------------------------------------------------------------------------
\* Result and Failure of a CompletionRequest
\* ------------------------------------------------------------------------

\* C27: every CompletionRequest handed to CompleteOperation has exactly one
\* of Result and Failure set, decided by State: succeeded has a Result and
\* no Failure, failed and canceled have a Failure and no Result, and no
\* other State reaches the handler.
C27_ResultXorFailure ==
  delivered.calls >= 1 =>
    \/ /\ delivered.req.State = OperationStateSucceeded
       /\ delivered.req.hasResult
       /\ delivered.req.Failure = NoFailure
    \/ /\ delivered.req.State \in {OperationStateFailed,
                                    OperationStateCanceled}
       /\ ~delivered.req.hasResult
       /\ delivered.req.Failure # NoFailure

\* CompleteOperation received a canceled operation with its Failure.
C27_CanceledWithFailure ==
  /\ delivered.calls = 1
  /\ delivered.req.State = OperationStateCanceled
  /\ delivered.req.Failure = Boom
  /\ ~delivered.req.hasResult

====
